---- MODULE Spec2Model ----
(***************************************************************************)
(* A model of the aklang tree-walking evaluator: the scope stack of        *)
(* src/runtime/mod.rs, the expression evaluator of                         *)
(* src/runtime/eval/expression.rs, the statement and block evaluators of   *)
(* src/runtime/eval/statement.rs and eval_program of                       *)
(* src/runtime/eval/program.rs.                                            *)
(*                                                                         *)
(* The Rust call stack is the variable `stack`: one activation record per  *)
(* evaluator function that is waiting for a nested eval_statements call.   *)
(* The Arc<Mutex<Scope>> frames live in `heap`; a ScopeStack is a sequence *)
(* of positions in the heap.                                               *)
(***************************************************************************)
EXTENDS Integers, Sequences, FiniteSets, TLC

VARIABLES
    program,    \* the Program handed to eval_program (its statements)
    heap,       \* the live Arc<Mutex<Scope>> frames, by allocation order
    stack,      \* the activation records of the evaluator functions
    ret,        \* the Result<Escape, String> a returning callee hands to its caller
    result,     \* what eval_program returned to the host
    did,        \* history: the step taken last
    assigned,   \* history: the binding that the last assignment wrote, while
                \* its frame lives and no import has bound the name again
    entered,    \* history: for each activation, the names that each frame
                \* bound when the activation began
    locked,     \* the frames whose Mutex is locked
    call        \* the ScopeStack call that eval_statement is in, when the
                \* calls are followed lock by lock

vars == <<program, heap, stack, ret, result, did, assigned, entered, locked, call>>

----------------------------------------------------------------------------
(* Bounds of the model *)

\* the size of a program: 2 for each statement, 1 for each branch of an
\* if statement after the first and 1 for its else block
MaxSize == 6
\* the number of branches of an if statement
MaxBranches == 2
\* the length of the host's list xs
ListLen == 3

----------------------------------------------------------------------------
(* Sequences *)

Last(s) == s[Len(s)]
Front(s) == SubSeq(s, 1, Len(s) - 1)
Min(a, b) == IF a < b THEN a ELSE b
Max(S) == CHOOSE m \in S : \A k \in S : k <= m

----------------------------------------------------------------------------
(* Value (runtime::value::Value) and DeclType *)

IntValue(n) == [tag |-> "Int", n |-> n]
BoolValue(b) == [tag |-> "Bool", b |-> b]
ListValue(vs) == [tag |-> "List", items |-> vs]
FuncValue(args, block) == [tag |-> "Func", args |-> args, block |-> block]
BuiltInFnValue(f) == [tag |-> "BuiltInFn", fn |-> f]
\* Object(Vec<KeyValue>)
ObjectValue(pairs) == [tag |-> "Object", pairs |-> pairs]
KeyValue(key, value) == [key |-> key, value |-> value]
\* Module(BTreeMap<String, Value>): a set of KeyValue, one per key
ModuleValue(exports) == [tag |-> "Module", exports |-> exports]

Mutable == "Mutable"
Immutable == "Immutable"

----------------------------------------------------------------------------
(* Result<_, String> and Escape *)

EscNone == [kind |-> "None"]
EscReturn(v) == [kind |-> "Return", value |-> v]
EscBreak == [kind |-> "Break"]
EscContinue == [kind |-> "Continue"]
Ok == [kind |-> "Ok"]
OkValue(v) == [kind |-> "Ok", value |-> v]
Err(m) == [kind |-> "Err", msg |-> m]
Panic == [kind |-> "Panic"]
\* no callee has returned / eval_program has not returned
NoRet == [kind |-> "NoRet"]

----------------------------------------------------------------------------
(* Scope = HashMap<String, (Value, DeclType)>: a set of entries, one per key *)

contains_key(scope, name) == \E e \in scope : e.name = name
entry(scope, name) == CHOOSE e \in scope : e.name = name
insert(scope, name, value, decl_type) ==
    {e \in scope : e.name # name}
        \cup {[name |-> name, value |-> value, decl |-> decl_type]}
keys(scope) == {e.name : e \in scope}

----------------------------------------------------------------------------
(* ScopeStack: mod.rs *)

\* a new_from_push whose view does not hold the new frame
new_from_push_not_pushed(hp, scopes, scope) ==
    [heap |-> Append(hp, scope), scopes |-> scopes]

\* ScopeStack::new_from_push: the same frames plus one new frame
new_from_push(hp, scopes, scope) ==
    [heap |-> Append(hp, scope), scopes |-> Append(scopes, Len(hp) + 1)]

\* a declare that looks for the name in every frame of the view
declare_every_frame(hp, scopes, name, value, decl_type) ==
    LET top == Last(scopes) IN
    IF \E k \in 1..Len(scopes) : contains_key(hp[scopes[k]], name)
    THEN [heap |-> hp, res |-> Err("already define in this scope")]
    ELSE [heap |-> [hp EXCEPT ![top] = insert(@, name, value, decl_type)],
          res |-> Ok]

\* ScopeStack::declare: the topmost frame only
declare(hp, scopes, name, value, decl_type) ==
    LET top == Last(scopes) IN
    IF contains_key(hp[top], name)
    THEN [heap |-> hp, res |-> Err("already define in this scope")]
    ELSE [heap |-> [hp EXCEPT ![top] = insert(@, name, value, decl_type)],
          res |-> Ok]

\* the position in `scopes` of the innermost frame that holds `name`, or 0
FirstWith(hp, scopes, name) ==
    LET with == {k \in 1..Len(scopes) : contains_key(hp[scopes[k]], name)} IN
    IF with = {} THEN 0 ELSE Max(with)

\* an assgin that writes to the topmost frame of the view
assgin_topmost(hp, scopes, name, value) ==
    LET k == FirstWith(hp, scopes, name) IN
    IF k = 0
    THEN [heap |-> hp, res |-> Err("is not defined")]
    ELSE IF entry(hp[scopes[k]], name).decl = Immutable
    THEN [heap |-> hp, res |-> Err("cannot mutate a immutable item")]
    ELSE [heap |-> [hp EXCEPT ![Last(scopes)] = insert(@, name, value, Mutable)],
          res |-> Ok]

\* an assgin that does not look at the tag of the binding
assgin_any_tag(hp, scopes, name, value) ==
    LET k == FirstWith(hp, scopes, name) IN
    IF k = 0
    THEN [heap |-> hp, res |-> Err("is not defined")]
    ELSE [heap |-> [hp EXCEPT ![scopes[k]] = insert(@, name, value, Mutable)],
          res |-> Ok]

\* ScopeStack::assgin: the innermost frame that holds the name
assgin(hp, scopes, name, value) ==
    LET k == FirstWith(hp, scopes, name) IN
    IF k = 0
    THEN [heap |-> hp, res |-> Err("is not defined")]
    ELSE IF entry(hp[scopes[k]], name).decl = Immutable
    THEN [heap |-> hp, res |-> Err("cannot mutate a immutable item")]
    ELSE [heap |-> [hp EXCEPT ![scopes[k]] = insert(@, name, value, Mutable)],
          res |-> Ok]

\* ScopeStack::get: Some(value) of the innermost binding, or None
get(hp, scopes, name) ==
    LET k == FirstWith(hp, scopes, name) IN
    IF k = 0
    THEN [some |-> FALSE]
    ELSE [some |-> TRUE, value |-> entry(hp[scopes[k]], name).value]

----------------------------------------------------------------------------
(* The AST (ast::Expression, ast::Statement) *)

Literal(lit) == [kind |-> "Literal", lit |-> lit]
Identifier(name) == [kind |-> "Identifier", name |-> name]
Call(name, args) == [kind |-> "Call", name |-> name, args |-> args]
LiteralInt(n) == [tag |-> "Int", n |-> n]

ExpressionStatement(expr) == [kind |-> "ExpressionStatement", expr |-> expr]
LetStatement(name, rhs) == [kind |-> "LetStatement", name |-> name, rhs |-> rhs]
ConstStatement(name, rhs) == [kind |-> "ConstStatement", name |-> name, rhs |-> rhs]
AssignmentStatement(name, rhs) ==
    [kind |-> "AssignmentStatement", name |-> name, rhs |-> rhs]
Branch(condition, statements) == [condition |-> condition, statements |-> statements]
\* else_block: <<>> is None, <<block>> is Some(block)
IfStatement(branchs, else_block) ==
    [kind |-> "IfStatement", branchs |-> branchs, else_block |-> else_block]
ReturnStatement(expr) == [kind |-> "ReturnStatement", expr |-> expr]
FnStatement(name, args, block) ==
    [kind |-> "FnStatement", name |-> name, args |-> args, block |-> block]
ForStatement(lhs, iter, block) ==
    [kind |-> "ForStatement", lhs |-> lhs, iter |-> iter, block |-> block]
BreakStatement == [kind |-> "BreakStatement"]
ContinueStatement == [kind |-> "ContinueStatement"]
WhileStatement(cond, block) ==
    [kind |-> "WhileStatement", cond |-> cond, block |-> block]
ModuleStatement(name, statements) ==
    [kind |-> "ModuleStatement", name |-> name, statements |-> statements]
\* items: <<>> is None, <<names>> is Some(names)
ImportStatement(args, items) ==
    [kind |-> "ImportStatement", args |-> args, items |-> items]

----------------------------------------------------------------------------
(* The standard library: std/mod.rs. A native callable is opaque to the     *)
(* evaluator, (ordered arguments) -> Result<Value, String>                 *)

ExportItem(name, value) == [kind |-> "Item", name |-> name, value |-> value]
ExportModule(name, exports) == [kind |-> "Module", name |-> name, exports |-> exports]

\* an Export::Item whose value is the native function f
Native(name, f) == ExportItem(name, BuiltInFnValue(f))

\* math::consts::exports()
math_consts_exports == <<>>

\* modules(): the tree of the built-in modules
modules ==
    << ExportModule("std",
         << ExportModule("math",
              << ExportModule("consts", math_consts_exports),
                 Native("add", "ak_add"),
                 Native("mul", "ak_mul"),
                 Native("div", "ak_div"),
                 Native("sub", "ak_sub"),
                 Native("cos", "ak_cos"),
                 Native("sin", "ak_sin"),
                 Native("abs", "ak_abs"),
                 Native("tan", "ak_tan"),
                 Native("pow", "ak_pow") >>),
            ExportModule("collections",
              << Native("set", "ak_set") >>),
            ExportModule("fs",
              << Native("read", "_fs_read_file"),
                 Native("write", "_fs_write_file"),
                 Native("rename", "_fs_rename_file"),
                 Native("remove", "_fs_remove_file"),
                 Native("read_dir", "_fs_read_dir"),
                 Native("remove_dir", "_fs_remove_dir") >>),
            ExportModule("system",
              << Native("platform", "_platform"),
                 Native("free_mem", "_free_mem"),
                 Native("total_mem", "_total_mem"),
                 Native("total_disk", "_total_disk"),
                 Native("free_disk", "_free_disk"),
                 Native("cpus", "_cpus"),
                 Native("cpu_speed", "_cpu_speed"),
                 Native("version", "_version"),
                 Native("processes", "_processes") >>),
            ExportModule("env", <<>>) >>) >>

\* math::ak_add: the sum of two numbers
ak_add(values) ==
    IF Len(values) = 2 /\ values[1].tag = "Int" /\ values[2].tag = "Int"
    THEN OkValue(IntValue(values[1].n + values[2].n))
    ELSE Err("add: expected two numbers")

\* the call f(values) of Value::BuiltInFn(f); the programs of the model
\* call no native function but ak_add
BuiltInFn(f, values) ==
    CASE f = "ak_add" -> ak_add(values)
      [] OTHER -> Err("native function failed")

----------------------------------------------------------------------------
(* eval_expression: expression.rs *)

RECURSIVE eval_expression(_, _, _)
RECURSIVE eval_args(_, _, _, _)

\* the loop `for arg in args { values.push(eval_expression(env, arg)?) }`:
\* the values of args[k..], or the first failure
eval_args(hp, scopes, args, k) ==
    IF k > Len(args)
    THEN [kind |-> "Ok", values |-> <<>>]
    ELSE LET val == eval_expression(hp, scopes, args[k]) IN
         IF val.kind # "Ok"
         THEN val
         ELSE LET rest == eval_args(hp, scopes, args, k + 1) IN
              IF rest.kind # "Ok"
              THEN rest
              ELSE [kind |-> "Ok", values |-> <<val.value>> \o rest.values]

eval_expression(hp, scopes, expression) ==
    CASE expression.kind = "Literal" ->
            OkValue(IntValue(expression.lit.n))
      [] expression.kind = "Call" ->
            LET f == get(hp, scopes, expression.name) IN
            IF ~f.some
            THEN Panic    \* .expect("{} function is not defined")
            ELSE IF f.value.tag = "BuiltInFn"
            THEN LET values == eval_args(hp, scopes, expression.args, 1) IN
                 IF values.kind # "Ok"
                 THEN values
                 ELSE BuiltInFn(f.value.fn, values.values)
            ELSE Err("is not a function")
      [] expression.kind = "Identifier" ->
            LET data == get(hp, scopes, expression.name) IN
            IF data.some
            THEN OkValue(data.value)
            ELSE Err("variable is not defied")

----------------------------------------------------------------------------
(* The inputs: the host's scope stack and the programs *)

\* the list the host binds to xs: false, true, false, ...
HostList == [k \in 1..ListLen |-> BoolValue(k % 2 = 0)]

\* the frame the host passes to eval_program in its ScopeStack
HostScope ==
    { [name |-> "t", value |-> BoolValue(TRUE), decl |-> Immutable],
      [name |-> "f", value |-> BoolValue(FALSE), decl |-> Immutable],
      [name |-> "xs", value |-> ListValue(HostList), decl |-> Immutable] }

\* the body of the one function the programs declare
FnBlock == <<ReturnStatement(Identifier("t"))>>

\* the body of the one module the programs declare
ModuleBlock == <<ConstStatement("one", Literal(LiteralInt(1)))>>

\* the statements without a nested block. The programs declare, assign and
\* import one name, add, which is also an item of std.math: declarations,
\* assignments and imports meet on it
Atoms ==
    { LetStatement("add", Identifier("t")),
      ConstStatement("add", Literal(LiteralInt(2))),
      AssignmentStatement("add", Identifier("f")),
      ReturnStatement(Identifier("add")),
      BreakStatement,
      ContinueStatement,
      FnStatement("add", <<"a", "b">>, FnBlock),
      ExpressionStatement(Call("add", <<Literal(LiteralInt(1)), Literal(LiteralInt(2))>>)),
      ModuleStatement("add", ModuleBlock),
      ImportStatement(<<"std", "math", "add">>, <<>>) }

IfConds == {Identifier("t"), Identifier("f"), Identifier("add")}
WhileConds == {Identifier("t"), Identifier("add")}
ForIters == {Identifier("xs"), Identifier("add")}

\* blocks[m + 1] is the set of the blocks of size m, for the sizes below
\* the one that is asked for

\* the sequences of j branches whose blocks have size n in all
RECURSIVE BranchsOfSize(_, _, _)
BranchsOfSize(blocks, j, n) ==
    IF j = 0
    THEN IF n = 0 THEN {<<>>} ELSE {}
    ELSE UNION { { <<Branch(c, b)>> \o bs :
                     c \in IfConds, b \in blocks[m + 1],
                     bs \in BranchsOfSize(blocks, j - 1, n - m) } : m \in 0..n }

\* the statements of size n. A statement has size 2, plus 1 for each branch
\* after the first and 1 for an else block, plus the sizes of its blocks
StatementsOfSize(blocks, n) ==
    (IF n = 2 THEN Atoms ELSE {})
    \cup { WhileStatement(c, b) : c \in WhileConds, b \in blocks[n - 1] }
    \cup { ForStatement("add", it, b) : it \in ForIters, b \in blocks[n - 1] }
    \cup UNION { { IfStatement(bs, <<>>) : bs \in BranchsOfSize(blocks, j, n - j - 1) } :
                 j \in 1..Min(n - 1, MaxBranches) }
    \cup UNION { UNION { { IfStatement(bs, <<e>>) :
                             bs \in BranchsOfSize(blocks, j, n - j - 2 - m),
                             e \in blocks[m + 1] } :
                         m \in 0..(n - j - 2) } :
                 j \in 1..Min(n - 2, MaxBranches) }

\* the blocks of size n
BlocksOfSize(blocks, n) ==
    UNION { { <<s>> \o b : s \in StatementsOfSize(blocks, k), b \in blocks[n - k + 1] } :
            k \in 2..n }

\* the sets of the blocks of the sizes 0..n, for the sizes n that a program
\* of size MaxSize has room for inside a statement: each table is made from
\* the one before it
BlocksUpTo0 == <<{<<>>}>>
BlocksUpTo1 ==
    IF MaxSize - 2 < 1
    THEN BlocksUpTo0
    ELSE Append(BlocksUpTo0, BlocksOfSize(BlocksUpTo0, 1))
BlocksUpTo2 ==
    IF MaxSize - 2 < 2
    THEN BlocksUpTo1
    ELSE Append(BlocksUpTo1, BlocksOfSize(BlocksUpTo1, 2))
BlocksUpTo3 ==
    IF MaxSize - 2 < 3
    THEN BlocksUpTo2
    ELSE Append(BlocksUpTo2, BlocksOfSize(BlocksUpTo2, 3))
BlocksUpTo4 ==
    IF MaxSize - 2 < 4
    THEN BlocksUpTo3
    ELSE Append(BlocksUpTo3, BlocksOfSize(BlocksUpTo3, 4))
BlocksUpTo5 ==
    IF MaxSize - 2 < 5
    THEN BlocksUpTo4
    ELSE Append(BlocksUpTo4, BlocksOfSize(BlocksUpTo4, 5))
BlocksUpTo6 ==
    IF MaxSize - 2 < 6
    THEN BlocksUpTo5
    ELSE Append(BlocksUpTo5, BlocksOfSize(BlocksUpTo5, 6))
BlocksUpTo7 ==
    IF MaxSize - 2 < 7
    THEN BlocksUpTo6
    ELSE Append(BlocksUpTo6, BlocksOfSize(BlocksUpTo6, 7))
Blocks == BlocksUpTo7

\* program is one of the programs of the sizes 0..MaxSize: no statement, or
\* a statement and a block
IsProgram(p) ==
    \/ p = <<>>
    \/ \E k \in 2..Min(MaxSize, 9) : \E s \in StatementsOfSize(Blocks, k) :
         \E m \in 0..(Min(MaxSize, 9) - k) : \E b \in Blocks[m + 1] :
            p = <<s>> \o b

----------------------------------------------------------------------------
(* The activation records *)

\* eval_program, waiting for eval_statements
ProgramFrame(scopes) == [kind |-> "eval_program", scopes |-> scopes]

\* eval_statements at statement i; scopes is its inner_scopes
BlockFrame(scopes, statements) ==
    [kind |-> "eval_statements", scopes |-> scopes,
     statements |-> statements, i |-> 1]

\* eval_statement in its IfStatement arm, waiting for the block it chose:
\* branch 1..Len(branchs), or Len(branchs) + 1 for the else block
IfFrame(scopes, statement, chosen) ==
    [kind |-> "IfStatement", scopes |-> scopes,
     statement |-> statement, chosen |-> chosen]

\* eval_statement in its ForStatement arm, waiting for the body to run with
\* values[k]; inner_scopes is the frame that binds lhs
ForFrame(scopes, statement, values, k, inner_scopes) ==
    [kind |-> "ForStatement", scopes |-> scopes, statement |-> statement,
     values |-> values, k |-> k, inner_scopes |-> inner_scopes]

\* eval_statement in its WhileStatement arm, waiting for the body
WhileFrame(scopes, statement) ==
    [kind |-> "WhileStatement", scopes |-> scopes, statement |-> statement]

----------------------------------------------------------------------------
(* eval_statements: statement.rs *)

\* the statement the innermost eval_statements is at
Current == Last(stack).statements[Last(stack).i]

\* eval_statements is about to call eval_statement on a statement of kind k
At(k) ==
    /\ stack # <<>>
    /\ ret = NoRet
    /\ Last(stack).kind = "eval_statements"
    /\ Last(stack).i <= Len(Last(stack).statements)
    /\ Current.kind = k

\* an eval_statements that only an error stops
Stops_on_error(statement, e) ==
    e.kind = "Err"

\* whether eval_statements stops at a statement that produced e: `?` on an
\* error, `return Ok(e)` unless the statement is a function declaration or e is None
Stops(statement, e) ==
    \/ e.kind = "Err"
    \/ (statement.kind # "FnStatement" /\ e.kind # "None")

\* the call of eval_statements(scopes, statements): its inner_scopes is a
\* new frame pushed on scopes
CallEvalStatements(stk, hp, scopes, statements) ==
    LET inner == new_from_push(hp, scopes, {}) IN
    /\ stack' = Append(stk, BlockFrame(inner.scopes, statements))
    /\ heap' = inner.heap
    /\ ret' = NoRet
    /\ result' = result

\* eval_statement returns e to the eval_statements on top of stk
Returned(stk, hp, e) ==
    /\ stack' = stk
    /\ heap' = hp
    /\ ret' = e
    /\ result' = result

\* eval_statements has the outcome of its statement: `?` returns an error,
\* a function declaration and Escape::None go on with the next statement,
\* any other Escape is returned; inner_scopes is dropped on return
StatementReturn ==
    /\ stack # <<>>
    /\ ret # NoRet
    /\ Last(stack).kind = "eval_statements"
    /\ IF Stops(Current, ret)
       THEN /\ stack' = Front(stack)
            /\ heap' = Front(heap)
            /\ ret' = ret
       ELSE /\ stack' = [stack EXCEPT ![Len(stack)].i = @ + 1]
            /\ heap' = heap
            /\ ret' = NoRet
    /\ UNCHANGED <<program, result>>

\* a panic unwinds every activation: the process aborts
Abort ==
    /\ stack' = <<>>
    /\ heap' = <<>>
    /\ ret' = NoRet
    /\ result' = Panic

\* the outcome r of an expression that is not a value: `?` returns the
\* error to the eval_statements on top of stk
Failed(stk, hp, r) ==
    IF r.kind = "Panic"
    THEN Abort
    ELSE Returned(stk, hp, r)

\* the end of the statements: Ok(Escape::None)
BlockEnd ==
    /\ stack # <<>>
    /\ ret = NoRet
    /\ Last(stack).kind = "eval_statements"
    /\ Last(stack).i > Len(Last(stack).statements)
    /\ stack' = Front(stack)
    /\ heap' = Front(heap)
    /\ ret' = EscNone
    /\ UNCHANGED <<program, result>>

----------------------------------------------------------------------------
(* eval_statement: the statements without a nested block *)

ExpressionStatementStep ==
    /\ At("ExpressionStatement")
    /\ LET r == eval_expression(heap, Last(stack).scopes, Current.expr) IN
       IF r.kind # "Ok"
       THEN Failed(stack, heap, r)
       ELSE Returned(stack, heap, EscNone)
    /\ UNCHANGED program

\* let and const: evaluate the right-hand side, then declare
DeclareStep(kind, decl_type) ==
    /\ At(kind)
    /\ LET r == eval_expression(heap, Last(stack).scopes, Current.rhs) IN
       IF r.kind # "Ok"
       THEN Failed(stack, heap, r)
       ELSE LET d == declare(heap, Last(stack).scopes, Current.name,
                             r.value, decl_type) IN
            Returned(stack, d.heap, IF d.res.kind = "Err" THEN d.res ELSE EscNone)
    /\ UNCHANGED program

LetStatementStep == DeclareStep("LetStatement", Mutable)

ConstStatementStep == DeclareStep("ConstStatement", Immutable)

AssignmentStatementStep ==
    /\ At("AssignmentStatement")
    /\ LET r == eval_expression(heap, Last(stack).scopes, Current.rhs) IN
       IF r.kind # "Ok"
       THEN Failed(stack, heap, r)
       ELSE LET a == assgin(heap, Last(stack).scopes, Current.name, r.value) IN
            Returned(stack, a.heap, IF a.res.kind = "Err" THEN a.res ELSE EscNone)
    /\ UNCHANGED program

ReturnStatementStep ==
    /\ At("ReturnStatement")
    /\ LET r == eval_expression(heap, Last(stack).scopes, Current.expr) IN
       IF r.kind # "Ok"
       THEN Failed(stack, heap, r)
       ELSE Returned(stack, heap, EscReturn(r.value))
    /\ UNCHANGED program

FnStatementStep ==
    /\ At("FnStatement")
    /\ LET d == declare(heap, Last(stack).scopes, Current.name,
                        FuncValue(Current.args, Current.block), Immutable) IN
       Returned(stack, d.heap, IF d.res.kind = "Err" THEN d.res ELSE EscNone)
    /\ UNCHANGED program

BreakStatementStep ==
    /\ At("BreakStatement")
    /\ Returned(stack, heap, EscBreak)
    /\ UNCHANGED program

ContinueStatementStep ==
    /\ At("ContinueStatement")
    /\ Returned(stack, heap, EscContinue)
    /\ UNCHANGED program

----------------------------------------------------------------------------
(* eval_module: statement.rs *)

RECURSIVE eval_module(_, _, _, _)
RECURSIVE module_statements(_, _, _, _, _)

\* BTreeMap::insert
exports_insert(exports, key, value) ==
    {e \in exports : e.key # key} \cup {KeyValue(key, value)}

\* a module body whose statements of the other kinds are passed over
RECURSIVE module_statements_skips_other(_, _, _, _, _)
module_statements_skips_other(hp, inner_scope, statements, k, exports) ==
    IF k > Len(statements)
    THEN [kind |-> "Ok", exports |-> exports]
    ELSE LET statement == statements[k] IN
         CASE statement.kind \in {"ConstStatement", "LetStatement"} ->
                LET value == eval_expression(hp, inner_scope, statement.rhs) IN
                IF value.kind # "Ok"
                THEN value
                ELSE module_statements_skips_other(hp, inner_scope, statements, k + 1,
                         exports_insert(exports, statement.name, value.value))
           [] statement.kind = "FnStatement" ->
                module_statements_skips_other(hp, inner_scope, statements, k + 1,
                    exports_insert(exports, statement.name,
                                   FuncValue(statement.args, statement.block)))
           [] statement.kind = "ModuleStatement" ->
                LET exports2 == eval_module(hp, inner_scope, statement.name,
                                            statement.statements) IN
                IF exports2.kind # "Ok"
                THEN exports2
                ELSE module_statements_skips_other(hp, inner_scope, statements, k + 1,
                         exports_insert(exports, statement.name,
                                        ModuleValue(exports2.exports)))
           [] OTHER ->
                module_statements_skips_other(hp, inner_scope, statements, k + 1, exports)

\* the loop `for statement in statements` from statement k on, with the
\* exports so far: all the exports, or the first failure
module_statements(hp, inner_scope, statements, k, exports) ==
    IF k > Len(statements)
    THEN [kind |-> "Ok", exports |-> exports]
    ELSE LET statement == statements[k] IN
         CASE statement.kind \in {"ConstStatement", "LetStatement"} ->
                LET value == eval_expression(hp, inner_scope, statement.rhs) IN
                IF value.kind # "Ok"
                THEN value
                ELSE module_statements(hp, inner_scope, statements, k + 1,
                         exports_insert(exports, statement.name, value.value))
           [] statement.kind = "FnStatement" ->
                module_statements(hp, inner_scope, statements, k + 1,
                    exports_insert(exports, statement.name,
                                   FuncValue(statement.args, statement.block)))
           [] statement.kind = "ModuleStatement" ->
                LET exports2 == eval_module(hp, inner_scope, statement.name,
                                            statement.statements) IN
                IF exports2.kind # "Ok"
                THEN exports2
                ELSE module_statements(hp, inner_scope, statements, k + 1,
                         exports_insert(exports, statement.name,
                                        ModuleValue(exports2.exports)))
           [] OTHER -> Err("is not supported in modules")

\* eval_module: the exports of a module body. Its inner_scope is a new frame
\* on scopes, which is dropped when eval_module returns
eval_module(hp, scopes, name, statements) ==
    LET inner == new_from_push(hp, scopes, {})
        exports == module_statements(inner.heap, inner.scopes, statements, 1, {})
    IN  IF exports.kind # "Ok"
        THEN exports
        ELSE LET d == declare(inner.heap, inner.scopes, name,
                              ModuleValue(exports.exports), Immutable) IN
             IF d.res.kind = "Err" THEN d.res ELSE exports

ModuleStatementStep ==
    /\ At("ModuleStatement")
    /\ LET module == eval_module(heap, Last(stack).scopes, Current.name,
                                 Current.statements) IN
       IF module.kind # "Ok"
       THEN Failed(stack, heap, module)
       ELSE LET d == declare(heap, Last(stack).scopes, Current.name,
                             ModuleValue(module.exports), Immutable) IN
            Returned(stack, d.heap, IF d.res.kind = "Err" THEN d.res ELSE EscNone)
    /\ UNCHANGED program

----------------------------------------------------------------------------
(* apply_imports: statement.rs *)

\* ScopeStack::declare_builtin: installs the binding in the importing scope
\* without the check for a duplicate
declare_builtin(hp, scopes, name, value, decl_type) ==
    [heap |-> [hp EXCEPT ![Last(scopes)] = insert(@, name, value, decl_type)],
     res |-> Ok]

RECURSIVE export_object(_, _)

\* an Object that also takes the sub-modules among exports
RECURSIVE export_object_every_export(_, _)
export_object_every_export(exports, k) ==
    IF k > Len(exports)
    THEN <<>>
    ELSE (IF exports[k].kind = "Item"
          THEN <<KeyValue(exports[k].name, exports[k].value)>>
          ELSE <<KeyValue(exports[k].name,
                          ObjectValue(export_object_every_export(exports[k].exports, 1)))>>)
         \o export_object_every_export(exports, k + 1)

\* the Object of the Items among exports, in their order
export_object(exports, k) ==
    IF k > Len(exports)
    THEN <<>>
    ELSE (IF exports[k].kind = "Item"
          THEN <<KeyValue(exports[k].name, exports[k].value)>>
          ELSE <<>>) \o export_object(exports, k + 1)

RECURSIVE import_items(_, _, _, _, _)

\* an import with an allow-list that binds every Item, listed or not
RECURSIVE import_items_every_item(_, _, _, _, _)
import_items_every_item(hp, scopes, exports, items, k) ==
    IF k > Len(exports)
    THEN [heap |-> hp, res |-> Ok]
    ELSE LET export == exports[k]
             d == IF export.kind = "Module"
                  THEN declare_builtin(hp, scopes, export.name,
                           ObjectValue(export_object(export.exports, 1)), Immutable)
                  ELSE declare_builtin(hp, scopes, export.name, export.value, Immutable)
         IN  import_items_every_item(d.heap, scopes, exports, items, k + 1)

\* an import with an allow-list that binds by ScopeStack::declare, with its
\* check for a duplicate
RECURSIVE import_items_by_declare(_, _, _, _, _)
import_items_by_declare(hp, scopes, exports, items, k) ==
    IF k > Len(exports)
    THEN [heap |-> hp, res |-> Ok]
    ELSE LET export == exports[k]
             d == IF export.kind = "Module"
                  THEN declare(hp, scopes, export.name,
                           ObjectValue(export_object(export.exports, 1)), Immutable)
                  ELSE IF export.name \in items
                  THEN declare(hp, scopes, export.name, export.value, Immutable)
                  ELSE [heap |-> hp, res |-> Ok]
         IN  IF d.res.kind = "Err"
             THEN d
             ELSE import_items_by_declare(d.heap, scopes, exports, items, k + 1)

\* the loop `for export in exports.iter()` of an import with an allow-list,
\* from export k on: the heap after its declare_builtin calls
import_items(hp, scopes, exports, items, k) ==
    IF k > Len(exports)
    THEN [heap |-> hp, res |-> Ok]
    ELSE LET export == exports[k]
             d == IF export.kind = "Module"
                  THEN declare_builtin(hp, scopes, export.name,
                           ObjectValue(export_object(export.exports, 1)), Immutable)
                  ELSE IF export.name \in items
                  THEN declare_builtin(hp, scopes, export.name, export.value, Immutable)
                  ELSE [heap |-> hp, res |-> Ok]
         IN  IF d.res.kind = "Err"
             THEN d
             ELSE import_items(d.heap, scopes, exports, items, k + 1)

\* the first Export of `last` named arg: its position, or 0
find(last, arg) ==
    LET found == {k \in 1..Len(last) : last[k].name = arg} IN
    IF found = {} THEN 0 ELSE CHOOSE k \in found : \A j \in found : k <= j

RECURSIVE import_path(_, _, _, _, _, _)

\* an import that binds an Item at the last segment also when there is an
\* allow-list
RECURSIVE import_path_item_with_list(_, _, _, _, _, _)
import_path_item_with_list(hp, scopes, last, args, items, i) ==
    IF i > Len(args)
    THEN [heap |-> hp, res |-> Ok]
    ELSE LET arg == args[i]
             k == find(last, arg)
         IN  IF k = 0
             THEN [heap |-> hp, res |-> Err("module or item not found")]
             ELSE LET m == last[k] IN
                  IF m.kind = "Module"
                  THEN IF i = Len(args)
                       THEN LET d == IF items # <<>>
                                     THEN import_items(hp, scopes, m.exports, items[1], 1)
                                     ELSE declare_builtin(hp, scopes, arg,
                                              ObjectValue(export_object(m.exports, 1)),
                                              Immutable)
                            IN  IF d.res.kind = "Err"
                                THEN d
                                ELSE import_path_item_with_list(d.heap, scopes, last, args, items, i + 1)
                       ELSE import_path_item_with_list(hp, scopes, m.exports, args, items, i + 1)
                  ELSE IF i < Len(args)
                       THEN [heap |-> hp, res |-> Err("is not a module")]
                       ELSE LET d == declare_builtin(hp, scopes, arg, m.value, Immutable)
                            IN  IF d.res.kind = "Err"
                                THEN d
                                ELSE import_path_item_with_list(d.heap, scopes, last, args, items, i + 1)

\* the loop `for (i, arg) in args.iter().enumerate()` from segment i on, with
\* `last` the exports to search
import_path(hp, scopes, last, args, items, i) ==
    IF i > Len(args)
    THEN [heap |-> hp, res |-> Ok]
    ELSE LET arg == args[i]
             k == find(last, arg)
         IN  IF k = 0
             THEN [heap |-> hp, res |-> Err("module or item not found")]
             ELSE LET m == last[k] IN
                  IF m.kind = "Module"
                  THEN IF i = Len(args)
                       THEN LET d == IF items # <<>>
                                     THEN import_items(hp, scopes, m.exports, items[1], 1)
                                     ELSE declare_builtin(hp, scopes, arg,
                                              ObjectValue(export_object(m.exports, 1)),
                                              Immutable)
                            IN  IF d.res.kind = "Err"
                                THEN d
                                ELSE import_path(d.heap, scopes, last, args, items, i + 1)
                       ELSE import_path(hp, scopes, m.exports, args, items, i + 1)
                  ELSE IF items # <<>>
                       THEN [heap |-> hp, res |-> Err("is not a module")]
                       ELSE IF i < Len(args)
                       THEN [heap |-> hp, res |-> Err("is not a module")]
                       ELSE LET d == declare_builtin(hp, scopes, arg, m.value, Immutable)
                            IN  IF d.res.kind = "Err"
                                THEN d
                                ELSE import_path(d.heap, scopes, last, args, items, i + 1)

apply_imports(hp, scopes, args, items) == import_path(hp, scopes, modules, args, items, 1)

ImportStatementStep ==
    /\ At("ImportStatement")
    /\ LET d == apply_imports(heap, Last(stack).scopes, Current.args, Current.items) IN
       Returned(stack, d.heap, IF d.res.kind = "Err" THEN d.res ELSE EscNone)
    /\ UNCHANGED program

----------------------------------------------------------------------------
(* eval_statement: IfStatement *)

RECURSIVE if_branch(_, _, _, _)

\* an if statement that goes past a condition that is not a Bool
RECURSIVE if_branch_past_non_bool(_, _, _, _)
if_branch_past_non_bool(hp, scopes, branchs, k) ==
    IF k > Len(branchs)
    THEN [kind |-> "NoBranch"]
    ELSE LET value == eval_expression(hp, scopes, branchs[k].condition) IN
         IF value.kind # "Ok"
         THEN value
         ELSE IF value.value.tag = "Bool" /\ value.value.b
         THEN [kind |-> "Branch", k |-> k]
         ELSE if_branch_past_non_bool(hp, scopes, branchs, k + 1)

\* the loop `for branch in branchs` from branch k on: the first branch whose
\* condition is Bool(true), an error, or no branch
if_branch(hp, scopes, branchs, k) ==
    IF k > Len(branchs)
    THEN [kind |-> "NoBranch"]
    ELSE LET value == eval_expression(hp, scopes, branchs[k].condition) IN
         IF value.kind # "Ok"
         THEN value
         ELSE IF value.value.tag # "Bool"
         THEN Err("condition most be a boolean")
         ELSE IF value.value.b
         THEN [kind |-> "Branch", k |-> k]
         ELSE if_branch(hp, scopes, branchs, k + 1)

IfStatementStep ==
    /\ At("IfStatement")
    /\ LET scopes == Last(stack).scopes
           chosen == if_branch(heap, scopes, Current.branchs, 1)
       IN  CASE chosen.kind = "Branch" ->
                  CallEvalStatements(
                      Append(stack, IfFrame(scopes, Current, chosen.k)),
                      heap, scopes, Current.branchs[chosen.k].statements)
             [] chosen.kind = "NoBranch" /\ Current.else_block # <<>> ->
                  CallEvalStatements(
                      Append(stack, IfFrame(scopes, Current, Len(Current.branchs) + 1)),
                      heap, scopes, Current.else_block[1])
             [] chosen.kind = "NoBranch" /\ Current.else_block = <<>> ->
                  Returned(stack, heap, EscNone)
             [] OTHER -> Failed(stack, heap, chosen)
    /\ UNCHANGED program

\* the chosen block returned: `?` on its error, `return Ok(ret)` otherwise
IfReturn ==
    /\ stack # <<>>
    /\ ret # NoRet
    /\ Last(stack).kind = "IfStatement"
    /\ Returned(Front(stack), heap, ret)
    /\ UNCHANGED program

----------------------------------------------------------------------------
(* eval_statement: ForStatement *)

ForStatementStep ==
    /\ At("ForStatement")
    /\ LET scopes == Last(stack).scopes
           iter_val == eval_expression(heap, scopes, Current.iter)
       IN  IF iter_val.kind # "Ok"
           THEN Failed(stack, heap, iter_val)
           ELSE IF iter_val.value.tag # "List"
           THEN Returned(stack, heap, Err("iterator most be a list"))
           ELSE /\ stack' = Append(stack, ForFrame(scopes, Current,
                                                   iter_val.value.items, 0, <<>>))
                /\ UNCHANGED <<heap, ret, result>>
    /\ UNCHANGED program

\* a for loop that declares lhs in the scope of the enclosing block
ForNext_declares_in_scopes ==
    /\ stack # <<>>
    /\ ret = NoRet
    /\ Last(stack).kind = "ForStatement"
    /\ LET a == Last(stack) IN
       IF a.k + 1 > Len(a.values)
       THEN Returned(Front(stack), heap, EscNone)
       ELSE LET d == declare(heap, a.scopes, a.statement.lhs,
                             a.values[a.k + 1], Mutable)
                inner == new_from_push(d.heap, a.scopes, {})
            IN  IF d.res.kind = "Err"
                THEN Returned(Front(stack), heap, d.res)
                ELSE CallEvalStatements(
                         [stack EXCEPT ![Len(stack)].k = a.k + 1,
                                       ![Len(stack)].inner_scopes = inner.scopes],
                         inner.heap, inner.scopes, a.statement.block)
    /\ UNCHANGED program

\* the loop `for value in values` takes values[k + 1]: a new frame that binds
\* lhs, and the body; or the values are used up
ForNext ==
    /\ stack # <<>>
    /\ ret = NoRet
    /\ Last(stack).kind = "ForStatement"
    /\ LET a == Last(stack) IN
       IF a.k + 1 > Len(a.values)
       THEN Returned(Front(stack), heap, EscNone)
       ELSE LET inner == new_from_push(heap, a.scopes, {})
                d == declare(inner.heap, inner.scopes, a.statement.lhs,
                             a.values[a.k + 1], Mutable)
            IN  IF d.res.kind = "Err"
                THEN Returned(Front(stack), heap, d.res)
                ELSE CallEvalStatements(
                         [stack EXCEPT ![Len(stack)].k = a.k + 1,
                                       ![Len(stack)].inner_scopes = inner.scopes],
                         d.heap, inner.scopes, a.statement.block)
    /\ UNCHANGED program

\* a for loop that hands the Break of its body to the enclosing block
ForReturn_break_escapes ==
    /\ stack # <<>>
    /\ ret # NoRet
    /\ Last(stack).kind = "ForStatement"
    /\ LET stk == Front(stack)
           hp == Front(heap)
       IN  CASE ret.kind \in {"None", "Continue"} ->
                  /\ stack' = [stack EXCEPT ![Len(stack)].inner_scopes = <<>>]
                  /\ heap' = hp
                  /\ ret' = NoRet
                  /\ result' = result
             [] OTHER -> Returned(stk, hp, ret)
    /\ UNCHANGED program

\* the body returned: inner_scopes of this element is dropped
ForReturn ==
    /\ stack # <<>>
    /\ ret # NoRet
    /\ Last(stack).kind = "ForStatement"
    /\ LET stk == Front(stack)
           hp == Front(heap)
       IN  CASE ret.kind = "Err" -> Returned(stk, hp, ret)
             [] ret.kind \in {"None", "Continue"} ->
                  /\ stack' = [stack EXCEPT ![Len(stack)].inner_scopes = <<>>]
                  /\ heap' = hp
                  /\ ret' = NoRet
                  /\ result' = result
             [] ret.kind = "Return" -> Returned(stk, hp, ret)
             [] ret.kind = "Break" -> Returned(stk, hp, EscNone)
    /\ UNCHANGED program

----------------------------------------------------------------------------
(* eval_statement: WhileStatement *)

\* one turn of `loop`: the condition, then the body; the eval_statements that
\* runs the while statement is on top of stk
WhileLoop(stk, hp, scopes, statement) ==
    LET value == eval_expression(hp, scopes, statement.cond) IN
    IF value.kind # "Ok"
    THEN Failed(stk, hp, value)
    ELSE IF value.value.tag # "Bool"
    THEN Returned(stk, hp, Err("condition most be a boolean"))
    ELSE IF ~value.value.b
    THEN Returned(stk, hp, EscNone)
    ELSE CallEvalStatements(Append(stk, WhileFrame(scopes, statement)),
                            hp, scopes, statement.block)

WhileStatementStep ==
    /\ At("WhileStatement")
    /\ WhileLoop(stack, heap, Last(stack).scopes, Current)
    /\ UNCHANGED program

\* a while loop that runs its body again without a look at the condition
WhileReturn_no_check ==
    /\ stack # <<>>
    /\ ret # NoRet
    /\ Last(stack).kind = "WhileStatement"
    /\ LET a == Last(stack)
           stk == Front(stack)
       IN  CASE ret.kind = "Err" -> Returned(stk, heap, ret)
             [] ret.kind \in {"None", "Continue"} ->
                  CallEvalStatements(stack, heap, a.scopes, a.statement.block)
             [] ret.kind = "Return" -> Returned(stk, heap, ret)
             [] ret.kind = "Break" -> Returned(stk, heap, EscNone)
    /\ UNCHANGED program

WhileReturn ==
    /\ stack # <<>>
    /\ ret # NoRet
    /\ Last(stack).kind = "WhileStatement"
    /\ LET a == Last(stack)
           stk == Front(stack)
       IN  CASE ret.kind = "Err" -> Returned(stk, heap, ret)
             [] ret.kind \in {"None", "Continue"} ->
                  WhileLoop(stk, heap, a.scopes, a.statement)
             [] ret.kind = "Return" -> Returned(stk, heap, ret)
             [] ret.kind = "Break" -> Returned(stk, heap, EscNone)
    /\ UNCHANGED program

----------------------------------------------------------------------------
(* eval_program: program.rs *)

\* the ScopeStack the host passes: its one frame
HostScopes == <<1>>

EvalProgram ==
    /\ stack = <<>>
    /\ result = NoRet
    /\ CallEvalStatements(<<ProgramFrame(HostScopes)>>, heap, HostScopes, program)
    /\ UNCHANGED program

\* an eval_program that returns whatever Escape it got
eval_program_any_escape(e) ==
    IF e.kind = "Err" THEN e ELSE [kind |-> "Ok", escape |-> e]

\* what eval_program makes of the e that eval_statements returned
eval_program(e) ==
    CASE e.kind = "Err" -> e
      [] e.kind = "Return" -> Err("return outside of function")
      [] e.kind = "Break" -> Err("break outside of loop")
      [] e.kind = "Continue" -> Err("continue outside of loop")
      [] OTHER -> [kind |-> "Ok", escape |-> e]

ProgramReturn ==
    /\ stack # <<>>
    /\ ret # NoRet
    /\ Last(stack).kind = "eval_program"
    /\ result' = eval_program(ret)
    /\ stack' = <<>>
    /\ ret' = NoRet
    /\ UNCHANGED <<program, heap>>

----------------------------------------------------------------------------
(* The specification *)

\* no assignment to speak of
NotAssigned == [frame |-> 0]

\* eval_statement is in no call of the ScopeStack
NoCall == [pc |-> "none"]

\* the innermost frame of `scopes` that binds name, or 0: the frame a lookup
\* of name resolves to
Holder(hp, scopes, name) ==
    IF \E k \in 1..Len(scopes) : name \in keys(hp[scopes[k]])
    THEN scopes[Max({k \in 1..Len(scopes) : name \in keys(hp[scopes[k]])})]
    ELSE 0

\* the names that each frame binds
Names(hp) == [p \in 1..Len(hp) |-> keys(hp[p])]

\* the history of a step named step
Did(step) ==
    /\ did' = step
    /\ entered' = [d \in 1..Len(stack') |->
                      IF d <= Len(stack) THEN entered[d] ELSE Names(heap')]
    /\ assigned' =
         IF step = "AssignmentStatementStep" /\ ret' = EscNone
         THEN [frame |-> Holder(heap, Last(stack).scopes, Current.name),
               name |-> Current.name,
               value |-> eval_expression(heap, Last(stack).scopes, Current.rhs).value]
         ELSE IF assigned.frame = 0 \/ assigned.frame > Len(heap')
         THEN NotAssigned
         ELSE IF /\ step = "ImportStatementStep"
                 /\ heap'[assigned.frame] # heap[assigned.frame]
         THEN NotAssigned
         ELSE assigned
    /\ UNCHANGED <<locked, call>>

Init ==
    /\ IsProgram(program)
    /\ heap = <<HostScope>>
    /\ stack = <<>>
    /\ ret = NoRet
    /\ result = NoRet
    /\ did = "Init"
    /\ assigned = NotAssigned
    /\ entered = <<>>
    /\ locked = {}
    /\ call = NoCall

Next ==
    \/ EvalProgram /\ Did("EvalProgram")
    \/ ExpressionStatementStep /\ Did("ExpressionStatementStep")
    \/ LetStatementStep /\ Did("LetStatementStep")
    \/ ConstStatementStep /\ Did("ConstStatementStep")
    \/ AssignmentStatementStep /\ Did("AssignmentStatementStep")
    \/ ReturnStatementStep /\ Did("ReturnStatementStep")
    \/ FnStatementStep /\ Did("FnStatementStep")
    \/ BreakStatementStep /\ Did("BreakStatementStep")
    \/ ContinueStatementStep /\ Did("ContinueStatementStep")
    \/ ModuleStatementStep /\ Did("ModuleStatementStep")
    \/ ImportStatementStep /\ Did("ImportStatementStep")
    \/ IfStatementStep /\ Did("IfStatementStep")
    \/ IfReturn /\ Did("IfReturn")
    \/ ForStatementStep /\ Did("ForStatementStep")
    \/ ForNext /\ Did("ForNext")
    \/ ForReturn /\ Did("ForReturn")
    \/ WhileStatementStep /\ Did("WhileStatementStep")
    \/ WhileReturn /\ Did("WhileReturn")
    \/ StatementReturn /\ Did("StatementReturn")
    \/ BlockEnd /\ Did("BlockEnd")
    \/ ProgramReturn /\ Did("ProgramReturn")

Spec == Init /\ [][Next]_vars

----------------------------------------------------------------------------
(* What the claims speak of *)

\* the positions of the frames that are live before and after a step
Kept == {p \in 1..Len(heap) : p <= Len(heap')}

\* the scope stacks that the activations hold
Views == {stack[d].scopes : d \in 1..Len(stack)}
    \cup {stack[d].inner_scopes :
            d \in {c \in 1..Len(stack) : stack[c].kind = "ForStatement"}}

\* eval_statement is about to declare a name: a let or const whose right-hand
\* side has a value, a function declaration, a module whose body has exports
Declaring ==
    \/ /\ At("LetStatement") \/ At("ConstStatement")
       /\ eval_expression(heap, Last(stack).scopes, Current.rhs).kind = "Ok"
    \/ At("FnStatement")
    \/ /\ At("ModuleStatement")
       /\ eval_module(heap, Last(stack).scopes, Current.name,
                      Current.statements).kind = "Ok"

\* C1: declare touches only the topmost frame. It fails with the
\* duplicate-declaration error exactly when the name is bound in the topmost
\* frame, whatever the mutability of the old and the new binding; otherwise
\* it adds the name to the topmost frame, also when an outer frame binds it.
\* No other frame changes in either case.
C1_DeclareTopmost ==
    [][Declaring =>
        LET top == Last(Last(stack).scopes)
            name == Current.name
        IN  /\ Len(heap') = Len(heap)
            /\ \A p \in 1..Len(heap) : p # top => heap'[p] = heap[p]
            /\ IF name \in keys(heap[top])
               THEN /\ ret' = Err("already define in this scope")
                    /\ heap'[top] = heap[top]
               ELSE /\ ret' = EscNone
                    /\ heap[top] \subseteq heap'[top]
                    /\ keys(heap'[top]) = keys(heap[top]) \cup {name}
                    /\ \A e \in heap'[top] : e.name = name =>
                         (e.decl = Mutable <=> Current.kind = "LetStatement")
    ]_vars

\* a declaration has shadowed a binding of an outer frame of the program
C1_Witness ==
    /\ did \in {"LetStatementStep", "ConstStatementStep", "FnStatementStep",
                "ModuleStatementStep"}
    /\ ret = EscNone
    /\ Len(heap) >= 3
    /\ "add" \in keys(heap[Len(heap)])
    /\ \E p \in 2..(Len(heap) - 1) : "add" \in keys(heap[p])


\* eval_statement is about to assign: the right-hand side has a value
Assigning ==
    /\ At("AssignmentStatement")
    /\ eval_expression(heap, Last(stack).scopes, Current.rhs).kind = "Ok"

\* the bindings of name in a frame
Bindings(scope, name) == {e \in scope : e.name = name}

\* C2 as the claim states it: after an assignment of v to n, every view
\* that shares the frame the assignment wrote to looks n up as v.
C2_EveryViewSeesValue ==
    assigned.frame # 0 =>
        \A view \in Views :
            (\E k \in 1..Len(view) : view[k] = assigned.frame) =>
                get(heap, view, assigned.name) =
                    [some |-> TRUE, value |-> assigned.value]

\* C2: an assignment acts on the innermost frame of the view that binds the
\* name, and on that frame only. If the binding is Mutable the frame binds
\* the name to the new value, still Mutable, and every other frame and every
\* other name is as before; from then on, while that frame lives and the
\* binding is not written again, every view in which the name resolves to
\* that frame (no inner frame of the view binds it) looks the name up as the
\* new value, the enclosing block after the assigning block has exited
\* included. If no frame binds the name the assignment fails with the
\* undefined-name error and no frame changes.
C2_AssignInnermost ==
    /\ [][Assigning =>
            LET scopes == Last(stack).scopes
                name == Current.name
                value == eval_expression(heap, scopes, Current.rhs).value
                h == Holder(heap, scopes, name)
            IN  IF h = 0
                THEN /\ ret' = Err("is not defined")
                     /\ heap' = heap
                ELSE (\A e \in Bindings(heap[h], name) : e.decl = Mutable) =>
                     /\ ret' = EscNone
                     /\ Len(heap') = Len(heap)
                     /\ \A p \in 1..Len(heap) : p # h => heap'[p] = heap[p]
                     /\ heap'[h] \ Bindings(heap'[h], name)
                            = heap[h] \ Bindings(heap[h], name)
                     /\ Bindings(heap'[h], name)
                            = {[name |-> name, value |-> value, decl |-> Mutable]}
        ]_vars
    /\ [](assigned.frame # 0 =>
            \A view \in Views :
                Holder(heap, view, assigned.name) = assigned.frame =>
                    get(heap, view, assigned.name) =
                        [some |-> TRUE, value |-> assigned.value])

\* a nested block has assigned to a variable of its enclosing block and has
\* exited; the enclosing block goes on and sees the new value
C2_Witness ==
    /\ assigned.frame # 0
    /\ did \in {"IfReturn", "ForReturn", "WhileReturn"}
    /\ ret = EscNone
    /\ stack # <<>>
    /\ Last(stack).kind = "eval_statements"
    /\ Last(Last(stack).scopes) = assigned.frame
    /\ get(heap, Last(stack).scopes, assigned.name).value = assigned.value


\* the Immutable bindings of a frame
Immutables(scope) == {e \in scope : e.decl = Immutable}

Returning ==
    {d \in (Len(stack') + 1)..Len(stack) : stack[d].kind = "eval_statements"}

\* every name that a frame binds
Bound(hp) == UNION {keys(hp[p]) : p \in 1..Len(hp)}

\* C4: a declaration in a nested block shadows the outer binding and does
\* not remove it. While a block runs, a name that its own frame binds looks
\* up as that binding. When the evaluation of a block returns, with an
\* Escape or with an error, the block's frame is gone, the caller's scope
\* stack has the frames it had, each with the names it bound when the block
\* began, and every name looks up as the binding that the caller saw then:
\* the outer binding again for a name the block shadowed, nothing for a name
\* only the block declared.
C4_ShadowRestored ==
    /\ [](\A view \in Views : view # <<>> =>
            \A e \in heap[Last(view)] :
                get(heap, view, e.name) = [some |-> TRUE, value |-> e.value])
    /\ [][result' # Panic =>
            \A d \in Returning :
                LET caller == Front(stack[d].scopes)
                    own == Last(stack[d].scopes)
                    before == entered[d]
                IN  /\ own > Len(heap')
                    /\ \A k \in 1..Len(caller) :
                         /\ caller[k] <= Len(heap')
                         /\ keys(heap'[caller[k]]) = before[caller[k]]
                    /\ \A n \in Bound(heap) :
                         LET with == {k \in 1..Len(caller) : n \in before[caller[k]]} IN
                         get(heap', caller, n) =
                            IF with = {}
                            THEN [some |-> FALSE]
                            ELSE [some |-> TRUE,
                                  value |-> (CHOOSE e \in heap'[caller[Max(with)]] :
                                                e.name = n).value]
        ]_vars

\* the body of a for loop declared the name of the loop variable and has
\* returned: the loop's view looks the name up as the element again
C4_Witness ==
    /\ did = "BlockEnd"
    /\ stack # <<>>
    /\ Last(stack).kind = "ForStatement"
    /\ Last(stack).statement.block # <<>>
    /\ Last(stack).statement.block[1].kind \in {"LetStatement", "ConstStatement"}
    /\ Last(stack).statement.block[1].name = Last(stack).statement.lhs
    /\ get(heap, Last(stack).inner_scopes, Last(stack).statement.lhs)
         = [some |-> TRUE, value |-> Last(stack).values[Last(stack).k]]


\* eval_statements has the outcome of the statement it called
Yielded ==
    /\ stack # <<>>
    /\ ret # NoRet
    /\ Last(stack).kind = "eval_statements"

\* the block on top of the stack returns in this step
Popped ==
    /\ stack' = Front(stack)
    /\ heap' = Front(heap)

\* the scope stack that the caller of the block at position d of stk passed
CallerScopes(stk, d) ==
    IF stk[d - 1].kind = "ForStatement"
    THEN stk[d - 1].inner_scopes
    ELSE stk[d - 1].scopes

\* C5: a block runs in one fresh child frame: it begins at its first
\* statement with the caller's frames and one new, empty frame, and keeps
\* that view. Its statements run in source order: the block goes from a
\* statement to the next one only, and only when the statement yielded
\* Escape::None or is a function declaration. An error stops the block at
\* once and is its result; so does the first Escape other than None of a
\* statement that is not a function declaration. When every statement has
\* yielded None the result is None. A block that has stopped runs no
\* statement again: it is gone from the stack.
C5_BlockExecution ==
    [][/\ (Len(stack') > Len(stack) /\ Last(stack').kind = "eval_statements") =>
            LET b == Last(stack') IN
            /\ b.i = 1
            /\ Len(heap') > Len(heap)
            /\ b.scopes = Append(CallerScopes(stack', Len(stack')), Len(heap'))
            /\ heap'[Len(heap')] = {}
       /\ \A d \in 1..Min(Len(stack), Len(stack')) :
            stack[d].kind = "eval_statements" =>
                /\ stack'[d].kind = "eval_statements"
                /\ stack'[d].scopes = stack[d].scopes
                /\ stack'[d].statements = stack[d].statements
                /\ stack'[d].i \in {stack[d].i, stack[d].i + 1}
                /\ stack'[d].i # stack[d].i => (d = Len(stack) /\ Yielded)
       /\ Yielded =>
            IF ret.kind = "Err"
            THEN Popped /\ ret' = ret
            ELSE IF Current.kind # "FnStatement" /\ ret # EscNone
            THEN Popped /\ ret' = ret
            ELSE /\ stack' = [stack EXCEPT ![Len(stack)].i = @ + 1]
                 /\ heap' = heap
                 /\ ret' = NoRet
       /\ (/\ stack # <<>>
           /\ ret = NoRet
           /\ Last(stack).kind = "eval_statements"
           /\ Last(stack).i > Len(Last(stack).statements)) =>
            Popped /\ ret' = EscNone
      ]_vars

\* the body of a for loop began with break and had more statements: the
\* break stopped it, and Break is what the loop got
C5_Witness ==
    /\ did = "StatementReturn"
    /\ ret = EscBreak
    /\ stack # <<>>
    /\ Last(stack).kind = "ForStatement"
    /\ Len(Last(stack).statement.block) >= 2
    /\ Last(stack).statement.block[1].kind = "BreakStatement"


\* eval_statement is in a for loop and no block of it runs: the body has
\* returned, or the loop is about to take an element
InFor ==
    /\ stack # <<>>
    /\ Last(stack).kind = "ForStatement"

\* the for loop on top of the stack returns e to its enclosing block
ForYields(e) ==
    /\ stack' = Front(stack)
    /\ ret' = e

\* C6: a for statement evaluates its iterable once, when it begins: a value
\* that is not a List is an error, and a List is the list of elements the
\* loop keeps. The body runs for the elements in list order, each at most
\* once, in a new frame that binds the loop variable to the element. When
\* the body yields Break the statement yields None and takes no later
\* element; on None or Continue the loop goes on with the next element, and
\* yields None after the last; on Return(v) the statement yields Return(v)
\* at once; an error of the body is the error of the statement. A for
\* statement yields neither Break nor Continue.
C6_ForLoop ==
    [][/\ (At("ForStatement")
           /\ eval_expression(heap, Last(stack).scopes, Current.iter).kind = "Ok") =>
            LET iter_val == eval_expression(heap, Last(stack).scopes, Current.iter).value IN
            IF iter_val.tag # "List"
            THEN /\ ret' = Err("iterator most be a list")
                 /\ stack' = stack
            ELSE /\ Len(stack') = Len(stack) + 1
                 /\ Last(stack').kind = "ForStatement"
                 /\ Last(stack').values = iter_val.items
                 /\ Last(stack').k = 0
                 /\ Last(stack').statement = Current
                 /\ ret' = NoRet
       /\ \A d \in 1..Min(Len(stack), Len(stack')) :
            stack[d].kind = "ForStatement" =>
                /\ stack'[d].kind = "ForStatement"
                /\ stack'[d].values = stack[d].values
                /\ stack'[d].statement = stack[d].statement
                /\ stack'[d].k \in {stack[d].k, stack[d].k + 1}
                /\ stack'[d].k # stack[d].k =>
                     /\ d = Len(stack)
                     /\ ret = NoRet
                     /\ Len(stack') = d + 1
                     /\ stack'[d + 1].kind = "eval_statements"
                     /\ stack'[d + 1].statements = stack[d].statement.block
                     /\ stack'[d + 1].i = 1
                     /\ get(heap', stack'[d].inner_scopes, stack[d].statement.lhs)
                          = [some |-> TRUE, value |-> stack[d].values[stack'[d].k]]
                     /\ Bindings(heap'[Last(stack'[d].inner_scopes)], stack[d].statement.lhs)
                          = {[name |-> stack[d].statement.lhs,
                              value |-> stack[d].values[stack'[d].k],
                              decl |-> Mutable]}
       /\ (InFor /\ ret = NoRet) =>
            IF Last(stack).k < Len(Last(stack).values)
            THEN /\ Len(stack') = Len(stack) + 1
                 /\ stack'[Len(stack)].k = Last(stack).k + 1
            ELSE ForYields(EscNone)
       /\ (InFor /\ ret # NoRet) =>
            CASE ret.kind = "Break" -> ForYields(EscNone)
              [] ret.kind \in {"None", "Continue"} ->
                   /\ Len(stack') = Len(stack)
                   /\ stack'[Len(stack)].k = Last(stack).k
                   /\ ret' = NoRet
              [] ret.kind = "Return" -> ForYields(ret)
              [] ret.kind = "Err" -> ForYields(ret)
       /\ (InFor /\ Len(stack') < Len(stack) /\ result' # Panic) =>
            ret'.kind \notin {"Break", "Continue"}
      ]_vars

\* the body of a for loop over the host's list began with break: the loop
\* has ended at the first element and the statement has yielded None
C6_Witness ==
    /\ did = "ForReturn"
    /\ ret = EscNone
    /\ stack # <<>>
    /\ Last(stack).kind = "eval_statements"
    /\ Current.kind = "ForStatement"
    /\ Current.iter = Identifier("xs")
    /\ Current.block # <<>>
    /\ Current.block[1].kind = "BreakStatement"


\* eval_statement is in a while loop whose body has returned
InWhile ==
    /\ stack # <<>>
    /\ ret # NoRet
    /\ Last(stack).kind = "WhileStatement"

\* what a while statement does at a check of its condition, before the first
\* iteration and before every later one: base is the stack up to the block
\* that holds the statement
WhileChecks(base, scopes, statement) ==
    LET value == eval_expression(heap, scopes, statement.cond) IN
    CASE value.kind = "Err" ->
           stack' = base /\ ret' = value
      [] value.kind = "Ok" /\ value.value.tag # "Bool" ->
           stack' = base /\ ret' = Err("condition most be a boolean")
      [] value.kind = "Ok" /\ value.value.tag = "Bool" /\ ~value.value.b ->
           stack' = base /\ ret' = EscNone /\ heap' = heap
      [] value.kind = "Ok" /\ value.value.tag = "Bool" /\ value.value.b ->
           /\ Len(stack') = Len(base) + 2
           /\ stack'[Len(base) + 1].kind = "WhileStatement"
           /\ stack'[Len(base) + 1].statement = statement
           /\ stack'[Len(base) + 1].scopes = scopes
           /\ Last(stack').kind = "eval_statements"
           /\ Last(stack').statements = statement.block
           /\ Last(stack').i = 1
           /\ Front(Last(stack').scopes) = scopes
           /\ ret' = NoRet
      [] OTHER -> result' = Panic

\* C7: a while statement evaluates its condition, in the frames as they are
\* then, before the first iteration and again after every iteration that
\* yielded None or Continue: an assignment of the body to a variable of an
\* enclosing frame is seen by the next check. Bool(false) ends the loop with
\* None, a value that is not a Bool is an error, Bool(true) runs the body.
\* When the body yields Break the statement yields None, on Return(v) it
\* yields Return(v) at once, an error of the body is the error of the
\* statement. A while statement yields neither Break nor Continue.
C7_WhileLoop ==
    [][/\ At("WhileStatement") => WhileChecks(stack, Last(stack).scopes, Current)
       /\ InWhile =>
            CASE ret.kind \in {"None", "Continue"} ->
                   WhileChecks(Front(stack), Last(stack).scopes, Last(stack).statement)
              [] ret.kind = "Break" -> stack' = Front(stack) /\ ret' = EscNone
              [] ret.kind = "Return" -> stack' = Front(stack) /\ ret' = ret
              [] ret.kind = "Err" -> stack' = Front(stack) /\ ret' = ret
       /\ ((At("WhileStatement") \/ InWhile) /\ Len(stack') <= Len(stack)
             /\ result' # Panic) =>
            ret'.kind \notin {"Break", "Continue", "NoRet"}
      ]_vars

\* `while add` has run its body once, the body assigned false to add, which
\* the enclosing block declared, and the next check has ended the loop
C7_Witness ==
    /\ did = "WhileReturn"
    /\ ret = EscNone
    /\ stack # <<>>
    /\ Last(stack).kind = "eval_statements"
    /\ Current.kind = "WhileStatement"
    /\ Current.cond = Identifier("add")
    /\ assigned.frame = Last(Last(stack).scopes)
    /\ assigned.value = BoolValue(FALSE)
    /\ get(heap, Last(stack).scopes, "add") = [some |-> TRUE, value |-> BoolValue(FALSE)]


\* the value of the condition of branch k of the if statement at hand
Condition(k) == eval_expression(heap, Last(stack).scopes, Current.branchs[k].condition)

\* the branches whose condition is not Bool(false): Bool(true), a value that
\* is not a Bool, or an error
Decisive ==
    {k \in 1..Len(Current.branchs) : Condition(k) # OkValue(BoolValue(FALSE))}

\* the if statement at hand begins to evaluate block
IfRuns(block) ==
    /\ Len(stack') = Len(stack) + 2
    /\ stack'[Len(stack) + 1].kind = "IfStatement"
    /\ Last(stack').kind = "eval_statements"
    /\ Last(stack').statements = block
    /\ Last(stack').i = 1
    /\ Front(Last(stack').scopes) = Last(stack).scopes
    /\ ret' = NoRet

\* C8: an if statement takes its conditions in order up to the first one
\* that is not Bool(false). If that one is Bool(true) the block of its branch
\* is evaluated, whatever the later conditions are; if it is not a Bool the
\* statement fails with the condition error, and if its evaluation fails
\* that error is the statement's. If every condition is Bool(false) the else
\* block is evaluated when there is one, and the statement yields None when
\* there is none. The block that is evaluated is the only one, and its
\* Escape or error is what the statement yields.
C8_IfStatement ==
    [][/\ At("IfStatement") =>
            IF Decisive = {}
            THEN IF Current.else_block # <<>>
                 THEN IfRuns(Current.else_block[1])
                 ELSE stack' = stack /\ heap' = heap /\ ret' = EscNone
            ELSE LET k == CHOOSE j \in Decisive : \A l \in Decisive : j <= l IN
                 CASE Condition(k) = OkValue(BoolValue(TRUE)) ->
                        IfRuns(Current.branchs[k].statements)
                   [] Condition(k).kind = "Ok" /\ Condition(k).value.tag # "Bool" ->
                        /\ stack' = stack
                        /\ heap' = heap
                        /\ ret' = Err("condition most be a boolean")
                   [] OTHER ->
                        stack' = stack /\ heap' = heap /\ ret' = Condition(k)
       /\ (stack # <<>> /\ Last(stack).kind = "IfStatement") =>
            /\ ret # NoRet
            /\ stack' = Front(stack)
            /\ heap' = heap
            /\ ret' = ret
      ]_vars

\* `if f { .. } elif t { break .. }`: the second block was the one evaluated
\* and the statement has yielded its Break
C8_Witness ==
    /\ did = "IfReturn"
    /\ ret = EscBreak
    /\ stack # <<>>
    /\ Last(stack).kind = "eval_statements"
    /\ Current.kind = "IfStatement"
    /\ Len(Current.branchs) = 2
    /\ Current.branchs[1].condition = Identifier("f")
    /\ Current.branchs[2].condition = Identifier("t")
    /\ Current.branchs[2].statements # <<>>
    /\ Current.branchs[2].statements[1].kind = "BreakStatement"


\* an activation of a loop is on the stack
InLoop == \E d \in 1..Len(stack) : stack[d].kind \in {"ForStatement", "WhileStatement"}

\* the structural error of an Escape that reaches eval_program
StructuralError(e) ==
    CASE e.kind = "Return" -> Err("return outside of function")
      [] e.kind = "Break" -> Err("break outside of loop")
      [] e.kind = "Continue" -> Err("continue outside of loop")

\* C9: eval_program returns Ok only with Escape::None. It returns the
\* return-outside-function, break-outside-loop or continue-outside-loop
\* error when its statements yield Return, Break or Continue, and an error
\* of theirs as it is. A return, and a break or continue that is in no
\* loop, yields its Escape, and from there every block and every if
\* statement around it hands that Escape up unchanged, until eval_program
\* turns it into the error.
C9_StructuralErrors ==
    /\ [](result.kind = "Ok" => result.escape = EscNone)
    /\ [][/\ (stack # <<>> /\ Last(stack).kind = "eval_program" /\ ret # NoRet) =>
                /\ stack' = <<>>
                /\ result' = CASE ret.kind = "None" -> [kind |-> "Ok", escape |-> EscNone]
                               [] ret.kind = "Err" -> ret
                               [] OTHER -> StructuralError(ret)
          /\ (At("BreakStatement") /\ ~InLoop) => ret' = EscBreak
          /\ (At("ContinueStatement") /\ ~InLoop) => ret' = EscContinue
          /\ (At("ReturnStatement")
                /\ eval_expression(heap, Last(stack).scopes, Current.expr).kind = "Ok") =>
                ret' = EscReturn(eval_expression(heap, Last(stack).scopes,
                                                 Current.expr).value)
          /\ (/\ stack # <<>>
              /\ Last(stack).kind # "eval_program"
              /\ \/ ret.kind = "Return"
                 \/ ret.kind \in {"Break", "Continue"} /\ ~InLoop) =>
                /\ stack' = Front(stack)
                /\ ret' = ret
         ]_vars

\* the one statement of the program is an if statement, a break in it was in
\* no loop, and eval_program has returned the break-outside-loop error
C9_Witness ==
    /\ result = Err("break outside of loop")
    /\ Len(program) = 1
    /\ program[1].kind = "IfStatement"


\* the expression statement at hand calls a name that is bound to a Func
CallingFunc ==
    /\ At("ExpressionStatement")
    /\ Current.expr.kind = "Call"
    /\ get(heap, Last(stack).scopes, Current.expr.name).some
    /\ get(heap, Last(stack).scopes, Current.expr.name).value.tag = "Func"

\* C10 as the claim states it: a call of a name bound to a user-defined Func
\* begins to evaluate the body of the Func as a block, in a fresh child
\* frame in which each parameter is bound to its argument.
C10_CallRunsBody ==
    [][CallingFunc =>
        LET f == get(heap, Last(stack).scopes, Current.expr.name).value
            values == eval_args(heap, Last(stack).scopes, Current.expr.args, 1).values
        IN  /\ Len(stack') > Len(stack)
            /\ Last(stack').kind = "eval_statements"
            /\ Last(stack').statements = f.block
            /\ Len(heap') > Len(heap)
            /\ \A k \in 1..Len(f.args) :
                 get(heap', Last(stack').scopes, f.args[k])
                    = [some |-> TRUE, value |-> values[k]]
    ]_vars

\* a call of a declared function has failed: its name is bound to a Func and
\* the call has yielded the is-not-a-function error
C10_Witness ==
    /\ did = "ExpressionStatementStep"
    /\ ret = Err("is not a function")
    /\ stack # <<>>
    /\ Last(stack).kind = "eval_statements"
    /\ Current.expr.kind = "Call"
    /\ get(heap, Last(stack).scopes, Current.expr.name).some
    /\ get(heap, Last(stack).scopes, Current.expr.name).value
         = FuncValue(<<"a", "b">>, FnBlock)


----------------------------------------------------------------------------
(* The specification of the imports: eval_program on the programs that     *)
(* import the paths of the built-in modules, with and without allow-list   *)

\* the number of statements of a program of imports
MaxStatements == 3

\* the import statements of the programs: paths that end at a module, at an
\* item, past an item and at no export, and allow-lists that name items,
\* sub-modules and no export
Imports ==
    { ImportStatement(<<"std", "math">>, <<>>),
      ImportStatement(<<"std", "math">>, <<{"add", "sub"}>>),
      ImportStatement(<<"std", "math">>, <<{"add", "nope"}>>),
      ImportStatement(<<"std">>, <<>>),
      ImportStatement(<<"std">>, <<{"math"}>>),
      ImportStatement(<<"std", "math", "add">>, <<>>),
      ImportStatement(<<"std", "math", "add">>, <<{"add"}>>),
      ImportStatement(<<"std", "math", "add", "sub">>, <<>>),
      ImportStatement(<<"std", "nope">>, <<>>),
      ImportStatement(<<"m">>, <<>>),
      ImportStatement(<<"m", "one">>, <<>>) }

\* the statements of the programs of imports: the imports, a module m, a
\* declaration of a name that std.math exports, and the uses of names that
\* an import may bind
ImportAtoms ==
    Imports \cup
    { ModuleStatement("m", ModuleBlock),
      LetStatement("add", Identifier("t")),
      ExpressionStatement(Identifier("mul")),
      ExpressionStatement(Identifier("math")) }

IsImportProgram(p) ==
    \E n \in 1..MaxStatements : p \in [1..n -> ImportAtoms]

ImportInit ==
    /\ IsImportProgram(program)
    /\ heap = <<HostScope>>
    /\ stack = <<>>
    /\ ret = NoRet
    /\ result = NoRet
    /\ did = "Init"
    /\ assigned = NotAssigned
    /\ entered = <<>>
    /\ locked = {}
    /\ call = NoCall

ImportNext ==
    \/ EvalProgram /\ Did("EvalProgram")
    \/ ExpressionStatementStep /\ Did("ExpressionStatementStep")
    \/ LetStatementStep /\ Did("LetStatementStep")
    \/ ModuleStatementStep /\ Did("ModuleStatementStep")
    \/ ImportStatementStep /\ Did("ImportStatementStep")
    \/ StatementReturn /\ Did("StatementReturn")
    \/ BlockEnd /\ Did("BlockEnd")
    \/ ProgramReturn /\ Did("ProgramReturn")

ImportSpec == ImportInit /\ [][ImportNext]_vars


----------------------------------------------------------------------------
(* The claims about the imports *)

\* the Export that the dotted path leads to in the Export list `forest`, or
\* why it leads to none
RECURSIVE Target(_, _)
Target(forest, path) ==
    LET found == {k \in 1..Len(forest) : forest[k].name = path[1]} IN
    IF found = {}
    THEN [kind |-> "NotFound"]
    ELSE LET m == forest[CHOOSE k \in found : \A j \in found : k <= j] IN
         IF Len(path) = 1
         THEN m
         ELSE IF m.kind = "Module"
         THEN Target(m.exports, Tail(path))
         ELSE [kind |-> "NotAModule"]

\* one key/value pair per Item of exports, in the order of exports
ItemPairs(exports) ==
    LET items == SelectSeq(exports, LAMBDA e : e.kind = "Item") IN
    [k \in 1..Len(items) |-> KeyValue(items[k].name, items[k].value)]

\* the frame `scope` after an import has bound name to value in it
Imported(scope, name, value) ==
    {e \in scope : e.name # name}
        \cup {[name |-> name, value |-> value, decl |-> Immutable]}

\* eval_statement is about to import a path of the built-in modules
Importing == At("ImportStatement") /\ Current.args # <<>>

\* C11: an import without allow-list of a path whose last segment is a
\* module succeeds and binds one name in the topmost frame of the importing
\* scope, the last segment of the path, Immutable, to the Object of the
\* Items of that module in their order; the sub-modules of the module are no
\* keys of the Object and no other binding of any frame changes.
C11_ImportModule ==
    [][(/\ Importing
        /\ Current.items = <<>>
        /\ Target(modules, Current.args).kind = "Module") =>
        LET top == Last(Last(stack).scopes)
            name == Last(Current.args)
            m == Target(modules, Current.args)
            object == ObjectValue(ItemPairs(m.exports))
        IN  /\ ret' = EscNone
            /\ Len(heap') = Len(heap)
            /\ \A p \in 1..Len(heap) : p # top => heap'[p] = heap[p]
            /\ heap'[top] = Imported(heap[top], name, object)
            /\ \A k \in 1..Len(m.exports) : m.exports[k].kind = "Module" =>
                 \A e \in heap'[top] : e.name = name =>
                   \A j \in 1..Len(e.value.pairs) :
                     e.value.pairs[j].key # m.exports[k].name
    ]_vars

\* `import std.math` has bound math to the Object of the nine functions of
\* std.math, and has bound neither consts nor any of the functions
C11_Witness ==
    /\ did = "ImportStatementStep"
    /\ ret = EscNone
    /\ program[Last(stack).i] = ImportStatement(<<"std", "math">>, <<>>)
    /\ \E e \in heap[Len(heap)] :
         /\ e.name = "math"
         /\ e.decl = Immutable
         /\ e.value.tag = "Object"
         /\ Len(e.value.pairs) = 9
    /\ keys(heap[Len(heap)]) \cap {"consts", "add", "sub"} = {}


\* the Exports of kind `kind` among exports
ExportsOf(exports, kind) ==
    {exports[k] : k \in {j \in 1..Len(exports) : exports[j].kind = kind}}

\* C12: an import with an allow-list of a path whose last segment is a
\* module succeeds and binds, in the topmost frame of the importing scope
\* and Immutable, every sub-module of the module under its name, to the
\* Object of the Items of the sub-module, and every Item of the module whose
\* name is in the allow-list under its name, to its value. It binds nothing
\* else: not the name of the module, and no Item that is not in the
\* allow-list, so that evaluating such a name, when no frame bound it before,
\* fails with the error of an undefined name.
C12_ImportAllowList ==
    [][(/\ Importing
        /\ Current.items # <<>>
        /\ Target(modules, Current.args).kind = "Module") =>
        LET scopes == Last(stack).scopes
            top == Last(scopes)
            m == Target(modules, Current.args)
            subs == ExportsOf(m.exports, "Module")
            listed == {e \in ExportsOf(m.exports, "Item") : e.name \in Current.items[1]}
            others == {e \in ExportsOf(m.exports, "Item") : e.name \notin Current.items[1]}
            bound == {e.name : e \in subs \cup listed}
        IN  /\ ret' = EscNone
            /\ Len(heap') = Len(heap)
            /\ \A p \in 1..Len(heap) : p # top => heap'[p] = heap[p]
            /\ \A e \in subs :
                 Bindings(heap'[top], e.name) =
                   {[name |-> e.name, value |-> ObjectValue(ItemPairs(e.exports)),
                     decl |-> Immutable]}
            /\ \A e \in listed :
                 Bindings(heap'[top], e.name) =
                   {[name |-> e.name, value |-> e.value, decl |-> Immutable]}
            /\ {e \in heap'[top] : e.name \notin bound} =
                 {e \in heap[top] : e.name \notin bound}
            /\ m.name \notin bound
            /\ \A e \in others :
                 /\ e.name \notin bound
                 /\ ~get(heap, scopes, e.name).some =>
                      eval_expression(heap', scopes, Identifier(e.name))
                        = Err("variable is not defied")
    ]_vars

\* after `import std.math {add, sub}` has bound add, sub and consts in a
\* frame that binds neither math nor mul, the statement `mul` has failed
\* with the error of an undefined name
C12_Witness ==
    /\ did = "ExpressionStatementStep"
    /\ ret = Err("variable is not defied")
    /\ Last(stack).i > 1
    /\ program[Last(stack).i] = ExpressionStatement(Identifier("mul"))
    /\ program[Last(stack).i - 1] = ImportStatement(<<"std", "math">>, <<{"add", "sub"}>>)
    /\ keys(heap[Len(heap)]) = {"add", "sub", "consts"}
    /\ \A e \in heap[Len(heap)] :
         /\ e.decl = Immutable
         /\ e.name = "consts" <=> e.value.tag = "Object"


\* C13: an import fails with the not-found error when a segment of the path
\* names no Export of the list that is searched, and with the not-a-module
\* error when a segment names an Item and there is an allow-list or a
\* segment after it; an Item at the last segment of a path without
\* allow-list is bound, Immutable, under the name of that segment. An import
\* that fails changes no frame.
C13_ImportPath ==
    [][Importing =>
        LET top == Last(Last(stack).scopes)
            target == Target(modules, Current.args)
            \* the first segment, if any, that names an Item
            at_item == \E n \in 1..Len(Current.args) :
                          Target(modules, SubSeq(Current.args, 1, n)).kind = "Item"
        IN  /\ target.kind = "NotFound" =>
                 ret' = Err("module or item not found")
            /\ (target.kind = "NotAModule"
                  \/ (target.kind = "Item" /\ Current.items # <<>>)) =>
                 ret' = Err("is not a module")
            /\ (target.kind = "Item" /\ Current.items = <<>>) =>
                 /\ ret' = EscNone
                 /\ heap'[top] = Imported(heap[top], Last(Current.args), target.value)
                 /\ \A p \in 1..Len(heap) : p # top => heap'[p] = heap[p]
            /\ ret'.kind = "Err" =>
                 /\ heap' = heap
                 /\ target.kind = "NotFound" \/ at_item
            /\ Len(heap') = Len(heap)
    ]_vars

\* `import std.math.add` has bound add to the native function, and
\* the import after it has failed
C13_Witness ==
    /\ did = "ImportStatementStep"
    /\ ret.kind = "Err"
    /\ Last(stack).i > 1
    /\ program[Last(stack).i - 1] = ImportStatement(<<"std", "math", "add">>, <<>>)
    /\ Bindings(heap[Len(heap)], "add") =
         {[name |-> "add", value |-> BuiltInFnValue("ak_add"), decl |-> Immutable]}


\* eval_statement is about to import a path whose first segment is a name
\* that the importing scope binds to a Module value: a module statement has
\* declared it
ImportingUserModule ==
    /\ Importing
    /\ LET m == get(heap, Last(stack).scopes, Current.args[1]) IN
       m.some /\ m.value.tag = "Module"

\* C14: the modules that module statements have declared in the scope are
\* part of the Export forest that an import searches: an import whose path
\* starts with such a module does not fail with the not-found error.
C14_ImportUserModule ==
    [][ImportingUserModule => ret' # Err("module or item not found")]_vars

\* `module m { const one = 1 }` has bound m to its Module value and the
\* `import m` after it has failed: no module or item m
C14_Witness ==
    /\ did = "ImportStatementStep"
    /\ ret = Err("module or item not found")
    /\ program[Last(stack).i] = ImportStatement(<<"m">>, <<>>)
    /\ Bindings(heap[Len(heap)], "m") =
         {[name |-> "m",
           value |-> ModuleValue({KeyValue("one", IntValue(1))}),
           decl |-> Immutable]}


\* eval_statement is about to run the import statement that the block has
\* just run: the statement before it is the same import and has succeeded
ImportingAgain ==
    /\ Importing
    /\ Last(stack).i > 1
    /\ Last(stack).statements[Last(stack).i - 1] = Current

\* C15: an import binds Immutable and without the check for a duplicate: it
\* never fails because a frame binds the name already, every binding it
\* makes is Immutable, and the same import run twice in a row in a block
\* succeeds the second time too and leaves every frame as the first left it.
C15_ImportIdempotent ==
    [][/\ Importing =>
            /\ ret' # Err("already define in this scope")
            /\ Len(heap') = Len(heap)
            /\ \A p \in 1..Len(heap) : \A e \in heap'[p] \ heap[p] :
                 e.decl = Immutable
       /\ ImportingAgain =>
            /\ ret' = EscNone
            /\ heap' = heap
      ]_vars

\* `import std.math {add, sub}` has run twice in a row in a block whose
\* frame bound add, sub and consts after the first
C15_Witness ==
    /\ did = "ImportStatementStep"
    /\ ret = EscNone
    /\ Last(stack).i > 1
    /\ program[Last(stack).i] = ImportStatement(<<"std", "math">>, <<{"add", "sub"}>>)
    /\ program[Last(stack).i - 1] = program[Last(stack).i]
    /\ keys(heap[Len(heap)]) = {"add", "sub", "consts"}
    /\ \A e \in heap[Len(heap)] : e.decl = Immutable


----------------------------------------------------------------------------
(* The specification of the modules: eval_program on the programs that     *)
(* declare one module m, whose body is made of every kind of statement     *)

\* the number of statements of the body of the module m
MaxBody == 3

\* the statements of the body of m: declarations of the names one and two
\* by const, let, fn and module, with right-hand sides that are literals,
\* names of the host's frame and names of the body, and one statement of
\* every other kind
ModuleAtoms ==
    { ConstStatement("one", Literal(LiteralInt(1))),
      LetStatement("one", Literal(LiteralInt(2))),
      LetStatement("two", Identifier("one")),
      ConstStatement("two", Identifier("t")),
      FnStatement("one", <<"a", "b">>, FnBlock),
      ModuleStatement("one", ModuleBlock),
      ModuleStatement("m", <<BreakStatement>>),
      ExpressionStatement(Identifier("t")),
      AssignmentStatement("one", Literal(LiteralInt(2))),
      ReturnStatement(Identifier("t")),
      BreakStatement,
      ContinueStatement,
      ImportStatement(<<"std", "math", "add">>, <<>>),
      IfStatement(<<Branch(Identifier("t"), <<>>)>>, <<>>),
      ForStatement("one", Identifier("xs"), <<>>),
      WhileStatement(Identifier("f"), <<>>) }

\* the programs declare m, in a frame that is empty or binds m already
IsModuleProgram(p) ==
    \E n \in 0..MaxBody : \E body \in [1..n -> ModuleAtoms] :
        \/ p = <<ModuleStatement("m", body)>>
        \/ p = <<LetStatement("m", Identifier("t")), ModuleStatement("m", body)>>

ModuleInit ==
    /\ IsModuleProgram(program)
    /\ heap = <<HostScope>>
    /\ stack = <<>>
    /\ ret = NoRet
    /\ result = NoRet
    /\ did = "Init"
    /\ assigned = NotAssigned
    /\ entered = <<>>
    /\ locked = {}
    /\ call = NoCall

ModuleNext ==
    \/ EvalProgram /\ Did("EvalProgram")
    \/ LetStatementStep /\ Did("LetStatementStep")
    \/ ModuleStatementStep /\ Did("ModuleStatementStep")
    \/ StatementReturn /\ Did("StatementReturn")
    \/ BlockEnd /\ Did("BlockEnd")
    \/ ProgramReturn /\ Did("ProgramReturn")

ModuleSpec == ModuleInit /\ [][ModuleNext]_vars


----------------------------------------------------------------------------
(* The claims about the modules *)

\* the kinds of statement that a module body may hold
ModuleKinds == {"ConstStatement", "LetStatement", "FnStatement", "ModuleStatement"}

\* whether every statement of body, and of the bodies of the modules nested
\* in it, is of a kind that a module body may hold
RECURSIVE Supported(_)
Supported(body) ==
    \A k \in 1..Len(body) :
        /\ body[k].kind \in ModuleKinds
        /\ body[k].kind = "ModuleStatement" => Supported(body[k].statements)

\* the first statement of body that is of no kind a module body may hold,
\* or 0
FirstOther(body) ==
    LET others == {k \in 1..Len(body) : body[k].kind \notin ModuleKinds} IN
    IF others = {} THEN 0 ELSE CHOOSE k \in others : \A j \in others : k <= j

DeclaringTwice ==
    /\ At("ModuleStatement")
    /\ Supported(Current.statements)
    /\ \A k \in 1..Len(Current.statements) :
         Current.statements[k].kind \in {"ConstStatement", "LetStatement"} =>
           eval_expression(heap, Last(stack).scopes, Current.statements[k].rhs).kind = "Ok"
    /\ \E j, k \in 1..Len(Current.statements) :
         j < k /\ Current.statements[j].name = Current.statements[k].name

\* C17: a module body that declares a name twice, by any two of const, let,
\* fn and module, is rejected: the module statement fails.
C17_ModuleNamesUnique ==
    [][DeclaringTwice => ret'.kind = "Err"]_vars

\* `module m { const one = 1  let one = 2 }` has succeeded and has bound m to
\* a Module whose only export is one = 2: the const is dropped
C17_Witness ==
    /\ did = "ModuleStatementStep"
    /\ ret = EscNone
    /\ program[Last(stack).i].statements =
         << ConstStatement("one", Literal(LiteralInt(1))),
            LetStatement("one", Literal(LiteralInt(2))) >>
    /\ Bindings(heap[Len(heap)], "m") =
         {[name |-> "m",
           value |-> ModuleValue({KeyValue("one", IntValue(2))}),
           decl |-> Immutable]}


----------------------------------------------------------------------------
(* The claims about the failures of expressions *)

\* eval_statement is about to evaluate a call of a name that no frame of its
\* scope binds
CallingUnbound ==
    /\ At("ExpressionStatement")
    /\ Current.expr.kind = "Call"
    /\ ~get(heap, Last(stack).scopes, Current.expr.name).some

\* C18: a failure is a result that the caller receives and never an abort:
\* the call of a name that is not bound returns the error of an undefined
\* name to eval_statements, whose activations stay as they are, and no step
\* ends the process.
C18_FailuresAreResults ==
    [][/\ CallingUnbound =>
            /\ ret'.kind = "Err"
            /\ stack' = stack
            /\ heap' = heap
       /\ result' # Panic
      ]_vars

\* the statement `add(1, 2)` was reached with add unbound and the process
\* has aborted: every activation is gone
C18_Witness ==
    /\ did = "ExpressionStatementStep"
    /\ result = Panic
    /\ stack = <<>>
    /\ heap = <<>>


----------------------------------------------------------------------------
(* The claims about the frames of the loops *)

\* the activations of stk that are loops
Loops(stk) ==
    {d \in 1..Len(stk) : stk[d].kind \in {"ForStatement", "WhileStatement"}}

\* a loop begins an iteration in this step: it calls eval_statements on its
\* body
IterationBegins ==
    /\ Len(stack') > Len(stack)
    /\ Len(stack') >= 2
    /\ Last(stack').kind = "eval_statements"
    /\ Len(stack') - 1 \in Loops(stack')

\* eval_statement is about to run a let or a const that is the first
\* statement of the body of a loop
DeclaringFirstInLoop ==
    /\ Declaring
    /\ Current.kind \in {"LetStatement", "ConstStatement"}
    /\ Last(stack).i = 1
    /\ Len(stack) - 1 \in Loops(stack)

\* C19: every iteration of a loop has frames of its own. The body of an
\* iteration runs in a new frame that binds nothing, on top of the scope of
\* the enclosing block for a while loop and, for a for loop, on top of a new
\* frame that binds only the loop variable, Mutable, to the element; so a
\* let or const at the head of the body never fails as a duplicate, in no
\* iteration. While a loop runs and when it has returned, the frames of the
\* enclosing blocks bind the names they bound when the loop began, and
\* when it has returned no frame of the loop is left.
C19_IterationFrames ==
    [][/\ IterationBegins =>
            LET loop == stack'[Len(stack') - 1]
                base == Last(loop.scopes)
            IN  /\ Len(heap) = base
                /\ \A p \in 1..base : heap'[p] = heap[p]
                /\ Last(Last(stack').scopes) = Len(heap')
                /\ heap'[Len(heap')] = {}
                /\ loop.kind = "WhileStatement" => Len(heap') = base + 1
                /\ loop.kind = "ForStatement" =>
                     /\ Len(heap') = base + 2
                     /\ heap'[base + 1] =
                          {[name |-> loop.statement.lhs,
                            value |-> loop.values[loop.k],
                            decl |-> Mutable]}
       /\ DeclaringFirstInLoop => ret' = EscNone
       /\ \A d \in Loops(stack') :
            \A p \in 1..Last(stack'[d].scopes) : keys(heap'[p]) = entered'[d][p]
       /\ (/\ stack # <<>>
           /\ Len(stack) \in Loops(stack)
           /\ stack' = Front(stack)) =>
            /\ Len(heap') = Last(Last(stack).scopes)
            /\ \A p \in 1..Len(heap') : keys(heap'[p]) = entered[Len(stack)][p]
      ]_vars

\* in the second iteration or a later one of a for loop over xs, the let at
\* the head of the body has declared add again, in a frame above the one
\* that binds the loop variable add; no frame below them binds add
C19_Witness ==
    /\ did = "LetStatementStep"
    /\ ret = EscNone
    /\ Len(stack) >= 2
    /\ Last(stack).i = 1
    /\ stack[Len(stack) - 1].kind = "ForStatement"
    /\ stack[Len(stack) - 1].k >= 2
    /\ "add" \in keys(heap[Len(heap)])
    /\ "add" \in keys(heap[Len(heap) - 1])
    /\ \A p \in 1..(Len(heap) - 2) : "add" \notin keys(heap[p])


----------------------------------------------------------------------------
(* The claim about the names of a module body *)

\* eval_statement is about to declare a module whose body is made of const,
\* let and fn declarations, in which every right-hand side is a literal, or
\* a name that a frame of the scope binds, or a name that an earlier
\* statement of the body declares, and one is of the last sort
DeclaringInOrder ==
    /\ At("ModuleStatement")
    /\ LET body == Current.statements
           rhs_ok(k) ==
               \/ body[k].rhs.kind = "Literal"
               \/ /\ body[k].rhs.kind = "Identifier"
                  /\ \/ get(heap, Last(stack).scopes, body[k].rhs.name).some
                     \/ \E j \in 1..(k - 1) : body[j].name = body[k].rhs.name
       IN  /\ \A k \in 1..Len(body) :
                /\ body[k].kind \in {"ConstStatement", "LetStatement", "FnStatement"}
                /\ body[k].kind # "FnStatement" => rhs_ok(k)
           /\ \E k \in 1..Len(body) :
                /\ body[k].kind # "FnStatement"
                /\ body[k].rhs.kind = "Identifier"
                /\ ~get(heap, Last(stack).scopes, body[k].rhs.name).some

\* C20: in a module body a declaration is visible to the declarations after
\* it: a const or let whose right-hand side names an earlier declaration of
\* the body evaluates, so the module statement does not fail with the error
\* of an undefined name.
C20_ModuleOrder ==
    [][DeclaringInOrder => ret' # Err("variable is not defied")]_vars

\* `module m { const one = 1  let two = one }` has failed: one is not defined
C20_Witness ==
    /\ did = "ModuleStatementStep"
    /\ ret = Err("variable is not defied")
    /\ program[Last(stack).i].statements =
         << ConstStatement("one", Literal(LiteralInt(1))),
            LetStatement("two", Identifier("one")) >>
    /\ heap[Len(heap)] = {}


----------------------------------------------------------------------------
(* The claim about the names of an allow-list *)

\* eval_statement is about to import with an allow-list a path that leads
\* to a module
ImportingListed ==
    /\ Importing
    /\ Current.items # <<>>
    /\ Target(modules, Current.args).kind = "Module"

\* C21: an import with an allow-list binds every name of the list or fails:
\* when a name of the list is no Item of the module the import returns an
\* error, and when the import succeeds the topmost frame binds every name of
\* the list.
C21_AllowListBound ==
    [][ImportingListed =>
        LET top == Last(Last(stack).scopes)
            m == Target(modules, Current.args)
            items == {e.name : e \in ExportsOf(m.exports, "Item")}
        IN  /\ ~(Current.items[1] \subseteq items) => ret'.kind = "Err"
            /\ ret' = EscNone => Current.items[1] \subseteq keys(heap'[top])
    ]_vars

\* `import std.math {add, nope}` has succeeded: the frame binds add and
\* consts, and nope is bound in no frame
C21_Witness ==
    /\ did = "ImportStatementStep"
    /\ ret = EscNone
    /\ program[Last(stack).i] = ImportStatement(<<"std", "math">>, <<{"add", "nope"}>>)
    /\ {"add", "consts"} \subseteq keys(heap[Len(heap)])
    /\ \A p \in 1..Len(heap) : "nope" \notin keys(heap[p])


----------------------------------------------------------------------------
(* The calls of the ScopeStack followed lock by lock: declare, assgin and  *)
(* get of mod.rs, as eval_statement calls them for a let, a const, an      *)
(* assignment, an expression statement and the condition of an if          *)

\* the number of statements of a program of this specification
MaxOps == 3

\* a call of `op` that is about to lock the frame scopes[k]
ScopeCall(op, k, name, value) ==
    [pc |-> "lock", op |-> op, k |-> k, name |-> name, value |-> value]

\* eval_expression has returned value to eval_statement
Valued(value) ==
    [pc |-> "value", op |-> "get", k |-> 0, name |-> "", value |-> value]

\* the frame that the call in progress locks
Frame == Last(stack).scopes[call.k]

\* the expression that eval_statement evaluates first
FirstExpression(statement) ==
    CASE statement.kind = "ExpressionStatement" -> statement.expr
      [] statement.kind = "IfStatement" -> statement.branchs[1].condition
      [] OTHER -> statement.rhs

\* eval_statement calls eval_expression: a literal is its value, an
\* identifier is a call of get, which begins at the innermost frame
EvalExpression ==
    /\ stack # <<>>
    /\ ret = NoRet
    /\ call = NoCall
    /\ Last(stack).kind = "eval_statements"
    /\ Last(stack).i <= Len(Last(stack).statements)
    /\ LET expr == FirstExpression(Current) IN
       call' = IF expr.kind = "Identifier"
               THEN ScopeCall("get", Len(Last(stack).scopes), expr.name, NoRet)
               ELSE Valued(eval_expression(heap, Last(stack).scopes, expr))
    /\ UNCHANGED <<program, heap, stack, ret, result, locked>>

\* scope.lock().unwrap(): the Mutex of the frame is taken when no guard of
\* it is alive; until then the call waits
Lock ==
    /\ call.pc = "lock"
    /\ Frame \notin locked
    /\ locked' = locked \cup {Frame}
    /\ call' = [call EXCEPT !.pc = "locked"]
    /\ UNCHANGED <<program, heap, stack, ret, result>>

\* get with the guard of a frame: Some(value) if the frame holds the name,
\* the next frame outwards if not, None after the outermost; the guard is
\* dropped at the end of the turn of the loop. eval_expression makes the
\* error of an undefined name of None
GetLocked ==
    /\ call.pc = "locked"
    /\ call.op = "get"
    /\ locked' = locked \ {Frame}
    /\ call' = IF contains_key(heap[Frame], call.name)
               THEN Valued(OkValue(entry(heap[Frame], call.name).value))
               ELSE IF call.k > 1
               THEN [call EXCEPT !.pc = "lock", !.k = @ - 1]
               ELSE Valued(Err("variable is not defied"))
    /\ UNCHANGED <<program, heap, stack, ret, result>>

\* eval_statement has the value of its expression: `?` returns an error; an
\* expression statement is done; a let, a const and an assignment call
\* declare and assgin with the value; an if statement runs the block that
\* the condition chooses
EvalStatement ==
    /\ call.pc = "value"
    /\ LET scopes == Last(stack).scopes
           value == call.value
       IN  IF value.kind # "Ok"
           THEN Returned(stack, heap, value) /\ call' = NoCall
           ELSE CASE Current.kind = "ExpressionStatement" ->
                       Returned(stack, heap, EscNone) /\ call' = NoCall
                  [] Current.kind \in {"LetStatement", "ConstStatement"} ->
                       /\ call' = ScopeCall("declare", Len(scopes), Current.name,
                                            value.value)
                       /\ UNCHANGED <<heap, stack, ret, result>>
                  [] Current.kind = "AssignmentStatement" ->
                       /\ call' = ScopeCall("assgin", Len(scopes), Current.name,
                                            value.value)
                       /\ UNCHANGED <<heap, stack, ret, result>>
                  [] Current.kind = "IfStatement" ->
                       /\ call' = NoCall
                       /\ IF value.value.tag # "Bool"
                          THEN Returned(stack, heap, Err("condition most be a boolean"))
                          ELSE IF value.value.b
                          THEN CallEvalStatements(
                                   Append(stack, IfFrame(scopes, Current, 1)),
                                   heap, scopes, Current.branchs[1].statements)
                          ELSE IF Current.else_block # <<>>
                          THEN CallEvalStatements(
                                   Append(stack, IfFrame(scopes, Current, 2)),
                                   heap, scopes, Current.else_block[1])
                          ELSE Returned(stack, heap, EscNone)
    /\ UNCHANGED <<program, locked>>

\* declare with the guard of the topmost frame: the duplicate error, or the
\* insert; the guard is dropped when declare returns
DeclareLocked ==
    /\ call.pc = "locked"
    /\ call.op = "declare"
    /\ locked' = locked \ {Frame}
    /\ call' = NoCall
    /\ IF contains_key(heap[Frame], call.name)
       THEN Returned(stack, heap, Err("already define in this scope"))
       ELSE Returned(stack,
                     [heap EXCEPT ![Frame] =
                         insert(@, call.name, call.value,
                                IF Current.kind = "LetStatement"
                                THEN Mutable ELSE Immutable)],
                     EscNone)
    /\ UNCHANGED program

\* an assgin that keeps the guards of the frames it has passed
AssginLocked_keeps_guards ==
    /\ call.pc = "locked"
    /\ call.op = "assgin"
    /\ IF contains_key(heap[Frame], call.name)
       THEN /\ locked' = {}
            /\ call' = NoCall
            /\ IF entry(heap[Frame], call.name).decl = Immutable
               THEN Returned(stack, heap, Err("cannot mutate a immutable item"))
               ELSE Returned(stack,
                             [heap EXCEPT ![Frame] =
                                 insert(@, call.name, call.value, Mutable)],
                             EscNone)
       ELSE IF call.k > 1
       THEN /\ locked' = locked
            /\ call' = [call EXCEPT !.pc = "lock", !.k = @ - 1]
            /\ UNCHANGED <<heap, stack, ret, result>>
       ELSE /\ locked' = {}
            /\ call' = NoCall
            /\ Returned(stack, heap, Err("is not defined"))
    /\ UNCHANGED program

\* assgin with the guard of a frame: if the frame holds the name, the error
\* of an Immutable binding or the insert; the next frame outwards if not,
\* and the error of an undefined name after the outermost. The guard is
\* dropped at the end of the turn of the loop and when assgin returns
AssginLocked ==
    /\ call.pc = "locked"
    /\ call.op = "assgin"
    /\ locked' = locked \ {Frame}
    /\ IF contains_key(heap[Frame], call.name)
       THEN /\ call' = NoCall
            /\ IF entry(heap[Frame], call.name).decl = Immutable
               THEN Returned(stack, heap, Err("cannot mutate a immutable item"))
               ELSE Returned(stack,
                             [heap EXCEPT ![Frame] =
                                 insert(@, call.name, call.value, Mutable)],
                             EscNone)
       ELSE IF call.k > 1
       THEN /\ call' = [call EXCEPT !.pc = "lock", !.k = @ - 1]
            /\ UNCHANGED <<heap, stack, ret, result>>
       ELSE /\ call' = NoCall
            /\ Returned(stack, heap, Err("is not defined"))
    /\ UNCHANGED program

\* the statements of the programs: a let, a const and two assignments of
\* the name add, one of them with add on its right-hand side, and the use
\* of a name that no frame binds
LockAtoms ==
    { LetStatement("add", Identifier("t")),
      ConstStatement("add", Literal(LiteralInt(2))),
      AssignmentStatement("add", Identifier("f")),
      AssignmentStatement("add", Identifier("add")),
      ExpressionStatement(Identifier("nope")) }

\* the programs: up to MaxOps statements, the last of which may be in the
\* block of an if statement, whose view shares the frames of the program's
IsLockProgram(p) ==
    \E n \in 0..MaxOps : \E m \in 0..n : \E b \in [1..n -> LockAtoms] :
        \/ m = n /\ p = b
        \/ p = SubSeq(b, 1, m)
                 \o <<IfStatement(<<Branch(Identifier("t"), SubSeq(b, m + 1, n))>>, <<>>)>>

\* the history of a step of a call
LockDid(step) ==
    /\ did' = step
    /\ entered' = [d \in 1..Len(stack') |->
                      IF d <= Len(stack) THEN entered[d] ELSE Names(heap')]
    /\ assigned' = assigned

LockInit ==
    /\ IsLockProgram(program)
    /\ heap = <<HostScope>>
    /\ stack = <<>>
    /\ ret = NoRet
    /\ result = NoRet
    /\ did = "Init"
    /\ assigned = NotAssigned
    /\ entered = <<>>
    /\ locked = {}
    /\ call = NoCall

LockNext ==
    \/ EvalProgram /\ Did("EvalProgram")
    \/ EvalExpression /\ LockDid("EvalExpression")
    \/ Lock /\ LockDid("Lock")
    \/ GetLocked /\ LockDid("GetLocked")
    \/ EvalStatement /\ LockDid("EvalStatement")
    \/ DeclareLocked /\ LockDid("DeclareLocked")
    \/ AssginLocked /\ LockDid("AssginLocked")
    \/ IfReturn /\ Did("IfReturn")
    \/ StatementReturn /\ Did("StatementReturn")
    \/ BlockEnd /\ Did("BlockEnd")
    \/ ProgramReturn /\ Did("ProgramReturn")

\* the evaluator is one thread that runs every call to its end
LockSpec == LockInit /\ [][LockNext]_vars /\ WF_vars(LockNext)


----------------------------------------------------------------------------
(* The claim about the locks of the frames *)

\* what holds of the locks in every state
LockInv ==
    /\ Cardinality(locked) <= 1
    /\ call.pc \in {"none", "value"} => locked = {}
    /\ call.pc = "lock" => locked = {} /\ Frame \notin locked
    /\ call.pc = "locked" => locked = {Frame}

\* what holds of every step of a call
LockStep ==
    /\ stack' # stack => locked = {} /\ locked' = {}
    /\ (call.pc = "none" /\ call' # NoCall) => locked = {}
    /\ (call.pc = "value" /\ call'.pc = "lock") =>
         /\ call'.op \in {"declare", "assgin"}
         /\ locked = {}
         /\ OkValue(call'.value) =
              eval_expression(heap, Last(stack).scopes, Current.rhs)
    /\ (call.pc = "locked" /\ call.op = "get" /\ call'.pc = "value") =>
         call'.value = eval_expression(heap, Last(stack).scopes,
                                       Identifier(call.name))
    /\ (call.pc = "locked" /\ call.op = "declare") =>
         LET d == declare(heap, Last(stack).scopes, call.name, call.value,
                          IF Current.kind = "LetStatement"
                          THEN Mutable ELSE Immutable)
         IN  /\ call' = NoCall
             /\ heap' = d.heap
             /\ ret' = IF d.res.kind = "Err" THEN d.res ELSE EscNone
    /\ (call.pc = "locked" /\ call.op = "assgin" /\ call' = NoCall) =>
         LET a == assgin(heap, Last(stack).scopes, call.name, call.value) IN
         /\ heap' = a.heap
         /\ ret' = IF a.res.kind = "Err" THEN a.res ELSE EscNone

\* C22: the locks of the frames neither deadlock nor are entered twice.
\* A call of declare, assgin or get holds the lock of at most one frame at a
\* time, never waits for a lock that is held, and has released every lock
\* when it returns; the right-hand side of a let, a const and an assignment
\* is evaluated before declare or assgin takes a lock, and the evaluator is
\* entered and left only while no lock is held. Every call, also through a
\* view of a nested block that shares the frames of the enclosing blocks,
\* comes to its end, with the result of the operation.
C22_FrameLocks ==
    /\ []LockInv
    /\ [][LockStep]_vars
    /\ (call # NoCall) ~> (call = NoCall)

\* in the block of an if statement, assgin has found the name in no frame of
\* the block and holds the lock of a frame of an enclosing block, the only
\* lock that is held
C22_Witness ==
    /\ did = "Lock"
    /\ call.pc = "locked"
    /\ call.op = "assgin"
    /\ Len(Last(stack).scopes) >= 3
    /\ call.k < Len(Last(stack).scopes)
    /\ locked = {Last(stack).scopes[call.k]}

====
